---- MODULE Spec2Model ----
(***************************************************************************)
(* SpaceNote mini backend (spacenote-projects/mini-backend-mongo).         *)
(*                                                                         *)
(* One asyncio event loop serves many requests.  A coroutine runs without  *)
(* interruption until it awaits a MongoDB call; the call is executed by    *)
(* the server at some later moment and the coroutine is resumed at a still *)
(* later moment.  Every request is therefore modelled as                   *)
(*    Call   - the synchronous prefix up to the first await,               *)
(*    Db     - the server executing the awaited command (or failing),      *)
(*    Resume - the coroutine continuing up to its next await or its end.   *)
(* Requests in flight are kept in a bag: two identical requests can be in  *)
(* flight at once.                                                         *)
(***************************************************************************)
EXTENDS Integers, Sequences, FiniteSets, Bags, TLC

(* ----------------------------- bounds -------------------------------- *)
\* requests that may be suspended at an await at the same time
MaxInFlight == 2
\* highest value a sequence counter is driven to
MaxSeq == 2

(* ----------------------------- domains ------------------------------- *)
Usernames == {"admin", "alice", "bob"}
Tokens == {"admin", "ta", "tb"}
Slugs == {"proj", "docs"}
Titles == {"T"}

\* User(username=..., token=...)
User(username, token) == [username |-> username, token |-> token]

\* SpaceField(id=..., type=..., required=..., options=..., default=...)
SpaceField(id, type, required, options, default) ==
    [id |-> id, type |-> type, required |-> required, options |-> options,
     default |-> default]

\* Space(slug=..., title=..., members=..., fields=...)
Space(slug, title, members, fields) ==
    [slug |-> slug, title |-> title, members |-> members, fields |-> fields]

\* Python's None
None == "None"

\* the values a note field can hold (FieldValueType = str | list[str] | int | float
\* | None), each with its Python type
PyNone == [py |-> "NoneType", val |-> None]

PyInt(n) == [py |-> "int", val |-> n]

PyFloat(x) == [py |-> "float", val |-> x]

PyStr(s) == [py |-> "str", val |-> s]

PyList(l) == [py |-> "list", val |-> l]

(* ------------------------------ state -------------------------------- *)
VARIABLES
    phase,              \* position of Core.on_start
    dbUsers,            \* collection "users"
    dbSpaces,           \* collection "spaces"
    note_counters,      \* collection "note_counters": space_slug -> seq (0: no document)
    comment_counters,   \* collection "comment_counters": <<space_slug, note_number>> -> seq
    dbNotes,            \* collection "notes": a bag of documents
    dbComments,         \* collection "comments": a bag of documents
    users,              \* UserService._users
    users_by_token,     \* UserService._users_by_token
    spaces,             \* SpaceService._spaces
    inflight,           \* bag of the requests suspended at an await
    issued_notes,       \* per space, the note numbers returned, in commit order
    issued_comments     \* per note, the comment numbers returned, in commit order

dbVars == <<dbUsers, dbSpaces, note_counters, comment_counters, dbNotes, dbComments>>
userCache == <<users, users_by_token>>
cacheVars == <<users, users_by_token, spaces>>
userVars == <<dbUsers, users, users_by_token>>
spaceVars == <<dbSpaces, spaces>>
recordVars == <<note_counters, comment_counters, dbNotes, dbComments,
                issued_notes, issued_comments>>
vars == <<phase, dbUsers, dbSpaces, note_counters, comment_counters, dbNotes,
          dbComments, users, users_by_token, spaces, inflight,
          issued_notes, issued_comments>>

(* ------------------------- python dictionaries ----------------------- *)
EmptyDict == [k \in {} |-> None]

\* d[k] = v
DictSet(d, k, v) == [x \in DOMAIN d \cup {k} |-> IF x = k THEN v ELSE d[x]]

\* del d[k]
DictDel(d, k) == [x \in DOMAIN d \ {k} |-> d[x]]

(* ------------------------- requests in flight ------------------------ *)
Suspend(r) == inflight' = inflight (+) SetToBag({r})

Step(r, r2) == inflight' = (inflight (-) SetToBag({r})) (+) SetToBag({r2})

Finish(r) == inflight' = inflight (-) SetToBag({r})

InFlight == BagToSet(inflight)

\* mutant: requests are served while on_start is still running
CanAcceptBeforeReady == BagCardinality(inflight) < MaxInFlight

CanAccept == phase = "ready" /\ BagCardinality(inflight) < MaxInFlight

(* ------------------------------ startup ------------------------------ *)
\* the durable store found at construction: empty, or left by an earlier run
SeedUsers == {User("admin", "admin"), User("alice", "ta")}

SeedSpaces ==
    {Space("proj", "T", <<"alice">>,
           <<SpaceField("priority", "int", TRUE, [min |-> 1, max |-> 5], PyNone)>>)}

\* Core.__init__ on a store holding these users and spaces and no notes
Constructed(usersColl, spacesColl) ==
    /\ phase = "constructed"
    /\ dbUsers = usersColl
    /\ dbSpaces = spacesColl
    /\ note_counters = [s \in Slugs |-> 0]
    /\ comment_counters = [k \in Slugs \X (1..MaxSeq) |-> 0]
    /\ dbNotes = EmptyBag
    /\ dbComments = EmptyBag
    /\ users = EmptyDict
    /\ users_by_token = EmptyDict
    /\ spaces = EmptyDict
    /\ inflight = EmptyBag
    /\ issued_notes = [s \in Slugs |-> <<>>]
    /\ issued_comments = [k \in Slugs \X (1..MaxSeq) |-> <<>>]

Init ==
    \E seeded \in BOOLEAN :
        Constructed(IF seeded THEN SeedUsers ELSE {}, IF seeded THEN SeedSpaces ELSE {})

(* ---------------------------- UserService ---------------------------- *)
\* mutant: create_user without the check of the username
HasUsernameNever(username) == FALSE

has_username(username) == username \in DOMAIN users

\* the unique indexes on "username" and on "token" (on_start)
UserDuplicateKey(coll, user) ==
    \E d \in coll : d.username = user.username \/ d.token = user.token

\* {user.username: user for user in users}
UsersByUsername(coll) ==
    [u \in {d.username : d \in coll} |-> CHOOSE d \in coll : d.username = u]

\* mutant: the token index is updated in place instead of rebuilt
UsersByTokenMerged(coll) ==
    [t \in DOMAIN users_by_token \cup {d.token : d \in coll} |->
        IF \E d \in coll : d.token = t THEN CHOOSE d \in coll : d.token = t
        ELSE users_by_token[t]]

\* {user.token: user for user in users}
UsersByToken(coll) ==
    [t \in {d.token : d \in coll} |-> CHOOSE d \in coll : d.token = t]

\* UserService.on_start, first part: update_all_users_cache
UpdateAllUsersCache ==
    /\ phase = "constructed"
    /\ users' = UsersByUsername(dbUsers)
    /\ users_by_token' = UsersByToken(dbUsers)
    /\ phase' = "users_loaded"
    /\ UNCHANGED <<dbVars, spaces, inflight, issued_notes, issued_comments>>

\* UserService.on_start, second part: ensure_admin_user_exists
EnsureAdminUserExists ==
    /\ phase = "users_loaded"
    /\ IF has_username("admin")
       THEN /\ phase' = "users_started"
            /\ UNCHANGED userVars
       ELSE \/ /\ ~UserDuplicateKey(dbUsers, User("admin", "admin"))
               /\ dbUsers' = dbUsers \cup {User("admin", "admin")}
               /\ users' = DictSet(users, "admin", User("admin", "admin"))
               /\ users_by_token' = DictSet(users_by_token, "admin", User("admin", "admin"))
               /\ phase' = "users_started"
            \/ /\ phase' = "failed"
               /\ UNCHANGED userVars
    /\ UNCHANGED <<dbSpaces, spaces, recordVars, inflight>>

\* update_all_users_cache called on the running service, up to the await of find()
UpdateAllUsersCacheCall ==
    /\ CanAccept
    /\ Suspend([op |-> "update_all_users_cache", pc |-> "find", docs |-> {}])
    /\ UNCHANGED <<phase, dbVars, cacheVars, issued_notes, issued_comments>>

\* the server executes find() on "users"; docs are the documents the cursor returns
UpdateAllUsersCacheDb(r) ==
    /\ r.op = "update_all_users_cache" /\ r.pc = "find"
    /\ \/ Step(r, [r EXCEPT !.pc = "found", !.docs = dbUsers])
       \/ Step(r, [r EXCEPT !.pc = "StorageError"])
    /\ UNCHANGED <<phase, dbVars, cacheVars, issued_notes, issued_comments>>

\* update_all_users_cache after the await: both indexes are rebuilt from the documents
UpdateAllUsersCacheResume(r) ==
    /\ r.op = "update_all_users_cache" /\ r.pc \in {"found", "StorageError"}
    /\ IF r.pc = "found"
       THEN /\ users' = UsersByUsername(r.docs)
            /\ users_by_token' = UsersByToken(r.docs)
       ELSE UNCHANGED userCache
    /\ Finish(r)
    /\ UNCHANGED <<phase, dbVars, spaces, issued_notes, issued_comments>>

\* mutant: get_user finds every username
GetUserRaisesNever(username) == FALSE

get_user_raises(username) == username \notin DOMAIN users

get_user_by_token_raises(token) == token \notin DOMAIN users_by_token

(* -------------------------------- App -------------------------------- *)
\* mutant: _ensure_admin without the check of the username
EnsureAdminAuthenticated(auth_token) ==
    IF get_user_by_token_raises(auth_token) THEN "AuthenticationError" ELSE "ok"

\* App._ensure_admin: the error raised, or "ok"
EnsureAdmin(auth_token) ==
    IF get_user_by_token_raises(auth_token) THEN "AuthenticationError"
    ELSE IF users_by_token[auth_token].username # "admin" THEN "AccessDeniedError"
    ELSE "ok"

(* ----------------------- create_user (App, service) ------------------ *)
\* App.create_user and UserService.create_user up to the await:
\* the error raised, or "await"
CreateUserCallOutcome(auth_token, username, token) ==
    IF EnsureAdmin(auth_token) # "ok" THEN EnsureAdmin(auth_token)
    ELSE IF has_username(username) THEN "ValidationError"
    ELSE "await"

CreateUserCall(auth_token, username, token) ==
    /\ CanAccept
    /\ IF CreateUserCallOutcome(auth_token, username, token) = "await"
       THEN Suspend([op |-> "create_user", pc |-> "insert_one",
                     username |-> username, token |-> token])
       ELSE UNCHANGED inflight
    /\ UNCHANGED <<phase, dbVars, cacheVars, issued_notes, issued_comments>>

\* the server executes insert_one(user.to_mongo()) on "users"
CreateUserDb(r) ==
    /\ r.op = "create_user" /\ r.pc = "insert_one"
    /\ \/ /\ ~UserDuplicateKey(dbUsers, User(r.username, r.token))
          /\ dbUsers' = dbUsers \cup {User(r.username, r.token)}
          /\ Step(r, [r EXCEPT !.pc = "inserted"])
       \/ /\ UserDuplicateKey(dbUsers, User(r.username, r.token))
          /\ dbUsers' = dbUsers
          /\ Step(r, [r EXCEPT !.pc = "DuplicateKeyError"])
       \/ /\ dbUsers' = dbUsers
          /\ Step(r, [r EXCEPT !.pc = "StorageError"])
    /\ UNCHANGED <<phase, dbSpaces, recordVars, cacheVars>>

\* "Update both caches": self._users[username] = user
UsersAfterCreate(cache, r) == DictSet(cache, r.username, User(r.username, r.token))

\* mutant: create_user without self._users_by_token[user.token] = user
TokensAfterCreateNone(cache, r) == cache

\* "Update both caches": self._users_by_token[token] = user
TokensAfterCreate(cache, r) == DictSet(cache, r.token, User(r.username, r.token))

\* create_user after the await: the caches are updated, or the exception propagates
CreateUserResume(r) ==
    /\ r.op = "create_user" /\ r.pc \in {"inserted", "DuplicateKeyError", "StorageError"}
    /\ IF r.pc = "inserted"
       THEN /\ users' = UsersAfterCreate(users, r)
            /\ users_by_token' = TokensAfterCreate(users_by_token, r)
       ELSE UNCHANGED userCache
    /\ Finish(r)
    /\ UNCHANGED <<phase, dbVars, spaces, issued_notes, issued_comments>>

(* ----------------------- delete_user (App, service) ------------------ *)
\* App.delete_user and UserService.delete_user up to the await:
\* the error raised, or "await"
DeleteUserCallOutcome(auth_token, username) ==
    IF EnsureAdmin(auth_token) # "ok" THEN EnsureAdmin(auth_token)
    ELSE IF username = users_by_token[auth_token].username THEN "ValidationError"
    ELSE IF get_user_raises(username) \/ ~has_username(username) THEN "NotFoundError"
    ELSE "await"

\* user = self._users[username] is read before the await
DeleteUserCall(auth_token, username) ==
    /\ CanAccept
    /\ IF DeleteUserCallOutcome(auth_token, username) = "await"
       THEN Suspend([op |-> "delete_user", pc |-> "delete_one",
                     username |-> username, token |-> users[username].token,
                     deleted |-> {}])
       ELSE UNCHANGED inflight
    /\ UNCHANGED <<phase, dbVars, cacheVars, issued_notes, issued_comments>>

\* mutant: delete_one followed by a $pull of the username from every members list
DeleteUserDbCascade(r) ==
    /\ r.op = "delete_user" /\ r.pc = "delete_one"
    /\ \/ /\ dbUsers' = {d \in dbUsers : d.username # r.username}
          /\ dbSpaces' = {[d EXCEPT !.members = SelectSeq(@, LAMBDA m : m # r.username)] :
                          d \in dbSpaces}
          /\ Step(r, [r EXCEPT !.pc = "deleted",
                               !.deleted = {d \in dbUsers : d.username = r.username}])
       \/ /\ dbUsers' = dbUsers /\ dbSpaces' = dbSpaces
          /\ Step(r, [r EXCEPT !.pc = "StorageError"])
    /\ UNCHANGED <<phase, recordVars, cacheVars>>

\* the server executes delete_one({"username": username}) on "users";
\* deleted is the document the command removed, if it found one
DeleteUserDb(r) ==
    /\ r.op = "delete_user" /\ r.pc = "delete_one"
    /\ \/ /\ dbUsers' = {d \in dbUsers : d.username # r.username}
          /\ Step(r, [r EXCEPT !.pc = "deleted",
                               !.deleted = {d \in dbUsers : d.username = r.username}])
       \/ /\ dbUsers' = dbUsers
          /\ Step(r, [r EXCEPT !.pc = "StorageError"])
    /\ UNCHANGED <<phase, dbSpaces, recordVars, cacheVars>>

\* how delete_user ends after the await: "ok", or the exception that propagates
\* (del self._users[username] raises KeyError when the key is gone)
DeleteUserResumeOutcome(r) ==
    IF r.pc = "StorageError" THEN "StorageError"
    ELSE IF r.username \notin DOMAIN users THEN "KeyError"
    ELSE "ok"

\* if user.token in self._users_by_token: del self._users_by_token[user.token]
TokensAfterDelete(cache, r) ==
    IF r.token \in DOMAIN cache THEN DictDel(cache, r.token) ELSE cache

\* delete_user after the await: "Remove from caches", or the exception propagates
DeleteUserResume(r) ==
    /\ r.op = "delete_user" /\ r.pc \in {"deleted", "StorageError"}
    /\ IF DeleteUserResumeOutcome(r) = "ok"
       THEN /\ users' = DictDel(users, r.username)
            /\ users_by_token' = TokensAfterDelete(users_by_token, r)
       ELSE UNCHANGED userCache
    /\ Finish(r)
    /\ UNCHANGED <<phase, dbVars, spaces, issued_notes, issued_comments>>

(* ---------------------------- SpaceService --------------------------- *)
has_slug(slug) == slug \in DOMAIN spaces

get_space_raises(slug) == slug \notin DOMAIN spaces

\* the unique index on "slug" (on_start)
SpaceDuplicateKey(coll, space) == \E d \in coll : d.slug = space.slug

\* {space.slug: space for space in spaces}
SpacesBySlug(coll) ==
    [s \in {d.slug : d \in coll} |-> CHOOSE d \in coll : d.slug = s]

\* SpaceService.on_start: update_all_spaces_cache; Core.on_start returns
UpdateAllSpacesCache ==
    /\ phase = "users_started"
    /\ spaces' = SpacesBySlug(dbSpaces)
    /\ phase' = "ready"
    /\ UNCHANGED <<dbVars, userCache, inflight, issued_notes, issued_comments>>

\* update_all_spaces_cache called on the running service, up to the await of find()
UpdateAllSpacesCacheCall ==
    /\ CanAccept
    /\ Suspend([op |-> "update_all_spaces_cache", pc |-> "find", docs |-> {}])
    /\ UNCHANGED <<phase, dbVars, cacheVars, issued_notes, issued_comments>>

\* the server executes find() on "spaces"; docs are the documents the cursor returns
UpdateAllSpacesCacheDb(r) ==
    /\ r.op = "update_all_spaces_cache" /\ r.pc = "find"
    /\ \/ Step(r, [r EXCEPT !.pc = "found", !.docs = dbSpaces])
       \/ Step(r, [r EXCEPT !.pc = "StorageError"])
    /\ UNCHANGED <<phase, dbVars, cacheVars, issued_notes, issued_comments>>

\* update_all_spaces_cache after the await: the cache is rebuilt from the documents
UpdateAllSpacesCacheResume(r) ==
    /\ r.op = "update_all_spaces_cache" /\ r.pc \in {"found", "StorageError"}
    /\ IF r.pc = "found"
       THEN spaces' = SpacesBySlug(r.docs)
       ELSE UNCHANGED spaces
    /\ Finish(r)
    /\ UNCHANGED <<phase, dbVars, userCache, issued_notes, issued_comments>>


(* ----------------------- create_space (App, service) ----------------- *)
\* App.create_space and SpaceService.create_space up to the await:
\* the error raised, or "await"
CreateSpaceCallOutcome(auth_token, slug) ==
    IF EnsureAdmin(auth_token) # "ok" THEN EnsureAdmin(auth_token)
    ELSE IF has_slug(slug) THEN "ValidationError"
    ELSE "await"

CreateSpaceCall(auth_token, slug, title) ==
    /\ CanAccept
    /\ IF CreateSpaceCallOutcome(auth_token, slug) = "await"
       THEN Suspend([op |-> "create_space", pc |-> "insert_one",
                     slug |-> slug, title |-> title])
       ELSE UNCHANGED inflight
    /\ UNCHANGED <<phase, dbVars, cacheVars, issued_notes, issued_comments>>

\* the server executes insert_one(space.to_mongo()) on "spaces"
CreateSpaceDb(r) ==
    /\ r.op = "create_space" /\ r.pc = "insert_one"
    /\ \/ /\ ~SpaceDuplicateKey(dbSpaces, Space(r.slug, r.title, <<>>, <<>>))
          /\ dbSpaces' = dbSpaces \cup {Space(r.slug, r.title, <<>>, <<>>)}
          /\ Step(r, [r EXCEPT !.pc = "inserted"])
       \/ /\ SpaceDuplicateKey(dbSpaces, Space(r.slug, r.title, <<>>, <<>>))
          /\ dbSpaces' = dbSpaces
          /\ Step(r, [r EXCEPT !.pc = "DuplicateKeyError"])
       \/ /\ dbSpaces' = dbSpaces
          /\ Step(r, [r EXCEPT !.pc = "StorageError"])
    /\ UNCHANGED <<phase, dbUsers, recordVars, cacheVars>>

\* "Update cache": self._spaces[slug] = space
SpacesAfterCreate(cache, r) == DictSet(cache, r.slug, Space(r.slug, r.title, <<>>, <<>>))

\* create_space after the await: the cache is updated, or the exception propagates
CreateSpaceResume(r) ==
    /\ r.op = "create_space" /\ r.pc \in {"inserted", "DuplicateKeyError", "StorageError"}
    /\ IF r.pc = "inserted"
       THEN spaces' = SpacesAfterCreate(spaces, r)
       ELSE UNCHANGED spaces
    /\ Finish(r)
    /\ UNCHANGED <<phase, dbVars, userCache, issued_notes, issued_comments>>

(* ----------------------- add_member (App, service) ------------------- *)
InSeq(x, seq) == \E i \in 1..Len(seq) : seq[i] = x

\* App.add_space_member and SpaceService.add_member up to the await:
\* the error raised, or "await"
AddMemberCallOutcome(auth_token, slug, username) ==
    IF EnsureAdmin(auth_token) # "ok" THEN EnsureAdmin(auth_token)
    ELSE IF ~has_slug(slug) THEN "NotFoundError"
    ELSE IF get_user_raises(username) THEN "NotFoundError"
    ELSE IF InSeq(username, spaces[slug].members) THEN "ValidationError"
    ELSE "await"

\* mutant: the list is appended to only after the await
SpacesAtAddMemberAwaitUnchanged(cache, slug, username) == cache

\* the cache once add_member reaches its await: space is the object the cache
\* holds, and space.members.append(username) comes before the await
SpacesAtAddMemberAwait(cache, slug, username) ==
    [cache EXCEPT ![slug].members = Append(@, username)]

AddMemberCall(auth_token, slug, username) ==
    /\ CanAccept
    /\ IF AddMemberCallOutcome(auth_token, slug, username) = "await"
       THEN /\ spaces' = SpacesAtAddMemberAwait(spaces, slug, username)
            /\ Suspend([op |-> "add_member", pc |-> "update_one", slug |-> slug,
                        username |-> username,
                        members |-> Append(spaces[slug].members, username)])
       ELSE UNCHANGED <<inflight, spaces>>
    /\ UNCHANGED <<phase, dbVars, userCache, issued_notes, issued_comments>>

\* the server executes update_one({"slug": slug}, {"$set": {"members": space.members}}).
\* The driver encodes the list when it sends the command, at the call or after
\* other coroutines ran: it holds what the list held at the call, or what it holds now.
AddMemberDb(r) ==
    /\ r.op = "add_member" /\ r.pc = "update_one"
    /\ \/ \E m \in {r.members, spaces[r.slug].members} :
             /\ dbSpaces' = {IF d.slug = r.slug THEN [d EXCEPT !.members = m] ELSE d :
                             d \in dbSpaces}
             /\ Step(r, [r EXCEPT !.pc = "updated"])
       \/ /\ dbSpaces' = dbSpaces
          /\ Step(r, [r EXCEPT !.pc = "StorageError"])
    /\ UNCHANGED <<phase, dbUsers, recordVars, cacheVars>>

\* add_member after the await: return space, or the exception propagates
AddMemberResume(r) ==
    /\ r.op = "add_member" /\ r.pc \in {"updated", "StorageError"}
    /\ Finish(r)
    /\ UNCHANGED <<phase, dbVars, cacheVars, issued_notes, issued_comments>>

(* ------------------ add_field, remove_field (App, service) ----------- *)
\* SpaceService.add_field and remove_field follow mutateAndPersist: read the current
\* value, apply the mutation, persist the full new value, then update the cache.
HasField(fields, field_id) == \E i \in 1..Len(fields) : fields[i].id = field_id

WithoutField(fields, field_id) == SelectSeq(fields, LAMBDA f : f.id # field_id)

\* App.add_field_to_space up to the await: the error raised, or "await"
AddFieldCallOutcome(auth_token, slug, field) ==
    IF EnsureAdmin(auth_token) # "ok" THEN EnsureAdmin(auth_token)
    ELSE IF ~has_slug(slug) THEN "NotFoundError"
    ELSE IF HasField(spaces[slug].fields, field.id) THEN "ValidationError"
    ELSE "await"

AddFieldCall(auth_token, slug, field) ==
    /\ CanAccept
    /\ IF AddFieldCallOutcome(auth_token, slug, field) = "await"
       THEN Suspend([op |-> "add_field", pc |-> "update_one", slug |-> slug,
                     fields |-> Append(spaces[slug].fields, field)])
       ELSE UNCHANGED inflight
    /\ UNCHANGED <<phase, dbVars, cacheVars, issued_notes, issued_comments>>

\* App.remove_field_from_space up to the await: the error raised, or "await"
RemoveFieldCallOutcome(auth_token, slug, field_id) ==
    IF EnsureAdmin(auth_token) # "ok" THEN EnsureAdmin(auth_token)
    ELSE IF ~has_slug(slug) THEN "NotFoundError"
    ELSE IF ~HasField(spaces[slug].fields, field_id) THEN "NotFoundError"
    ELSE "await"

RemoveFieldCall(auth_token, slug, field_id) ==
    /\ CanAccept
    /\ IF RemoveFieldCallOutcome(auth_token, slug, field_id) = "await"
       THEN Suspend([op |-> "remove_field", pc |-> "update_one", slug |-> slug,
                     fields |-> WithoutField(spaces[slug].fields, field_id)])
       ELSE UNCHANGED inflight
    /\ UNCHANGED <<phase, dbVars, cacheVars, issued_notes, issued_comments>>

\* the server executes update_one({"slug": slug}, {"$set": {"fields": ...}})
SetFieldsDb(r) ==
    /\ r.op \in {"add_field", "remove_field"} /\ r.pc = "update_one"
    /\ \/ /\ dbSpaces' = {IF d.slug = r.slug THEN [d EXCEPT !.fields = r.fields] ELSE d :
                          d \in dbSpaces}
          /\ Step(r, [r EXCEPT !.pc = "updated"])
       \/ /\ dbSpaces' = dbSpaces
          /\ Step(r, [r EXCEPT !.pc = "StorageError"])
    /\ UNCHANGED <<phase, dbUsers, recordVars, cacheVars>>

\* after the await: the cache gets the new value, or the exception propagates
SetFieldsResume(r) ==
    /\ r.op \in {"add_field", "remove_field"} /\ r.pc \in {"updated", "StorageError"}
    /\ IF r.pc = "updated" /\ r.slug \in DOMAIN spaces
       THEN spaces' = [spaces EXCEPT ![r.slug].fields = r.fields]
       ELSE UNCHANGED spaces
    /\ Finish(r)
    /\ UNCHANGED <<phase, dbVars, userCache, issued_notes, issued_comments>>

(* --------------------------- field coercion -------------------------- *)
\* A str is the sequence of its characters.
DigitChars == <<"0", "1", "2", "3", "4", "5", "6", "7", "8", "9">>

IsDigit(c) == \E i \in 1..Len(DigitChars) : DigitChars[i] = c

DigitValue(c) == (CHOOSE i \in 1..Len(DigitChars) : DigitChars[i] = c) - 1

RECURSIVE LStrip(_)
LStrip(s) == IF s # <<>> /\ Head(s) = " " THEN LStrip(Tail(s)) ELSE s

RECURSIVE RStrip(_)
RStrip(s) ==
    IF s # <<>> /\ s[Len(s)] = " " THEN RStrip(SubSeq(s, 1, Len(s) - 1)) ELSE s

\* str.strip()
Strip(s) == RStrip(LStrip(s))

AllDigits(s) == s # <<>> /\ \A i \in 1..Len(s) : IsDigit(s[i])

RECURSIVE DigitsValue(_)
DigitsValue(s) ==
    IF s = <<>> THEN 0 ELSE 10 * DigitsValue(SubSeq(s, 1, Len(s) - 1)) + DigitValue(s[Len(s)])

Unsigned(s) == IF s # <<>> /\ Head(s) \in {"-", "+"} THEN Tail(s) ELSE s

\* mutant: an int() that accepts no sign
IntRaisesUnsigned(raw_value) == ~AllDigits(Strip(raw_value))

\* int(raw_value) raises ValueError (surrounding blanks and a sign are accepted)
int_raises(raw_value) == ~AllDigits(Unsigned(Strip(raw_value)))

\* int(raw_value)
int(raw_value) ==
    IF Strip(raw_value) # <<>> /\ Head(Strip(raw_value)) = "-"
    THEN 0 - DigitsValue(Unsigned(Strip(raw_value)))
    ELSE DigitsValue(Unsigned(Strip(raw_value)))

\* the place of the first "." of s, or 0
DotAt(s) ==
    IF \E i \in 1..Len(s) : s[i] = "."
    THEN CHOOSE i \in 1..Len(s) : s[i] = "." /\ \A j \in 1..(i - 1) : s[j] # "."
    ELSE 0

IntPart(s) == IF DotAt(s) = 0 THEN s ELSE SubSeq(s, 1, DotAt(s) - 1)

FracPart(s) == IF DotAt(s) = 0 THEN <<>> ELSE SubSeq(s, DotAt(s) + 1, Len(s))

\* float(raw_value) raises ValueError: digits with at most one ".", at least one digit
float_raises(raw_value) ==
    LET u == Unsigned(Strip(raw_value))
    IN  ~ /\ \A i \in 1..Len(IntPart(u)) : IsDigit(IntPart(u)[i])
          /\ \A i \in 1..Len(FracPart(u)) : IsDigit(FracPart(u)[i])
          /\ Len(IntPart(u)) + Len(FracPart(u)) > 0

RECURSIVE DropTrailingZeros(_)
DropTrailingZeros(s) ==
    IF s # <<>> /\ s[Len(s)] = "0" THEN DropTrailingZeros(SubSeq(s, 1, Len(s) - 1)) ELSE s

\* float(raw_value): sign, integer part and the digits after the point
float(raw_value) ==
    LET u == Unsigned(Strip(raw_value))
    IN  [float |-> TRUE,
         negative |-> Strip(raw_value) # <<>> /\ Head(Strip(raw_value)) = "-"
                      /\ (DigitsValue(IntPart(u)) # 0 \/ DropTrailingZeros(FracPart(u)) # <<>>),
         int |-> DigitsValue(IntPart(u)),
         frac |-> DropTrailingZeros(FracPart(u))]

\* raw_value.split(",")
RECURSIVE Split(_)
Split(s) ==
    IF \E i \in 1..Len(s) : s[i] = ","
    THEN LET k == CHOOSE i \in 1..Len(s) : s[i] = "," /\ \A j \in 1..(i - 1) : s[j] # ","
         IN  <<SubSeq(s, 1, k - 1)>> \o Split(SubSeq(s, k + 1, Len(s)))
    ELSE <<s>>

RECURSIVE NonEmptyStripped(_)
NonEmptyStripped(parts) ==
    IF parts = <<>> THEN <<>>
    ELSE IF Strip(Head(parts)) = <<>> THEN NonEmptyStripped(Tail(parts))
    ELSE <<Strip(Head(parts))>> \o NonEmptyStripped(Tail(parts))

\* mutant: raw_value.split(",") stored as it is
TagsUnstripped(raw_value) == Split(raw_value)

\* [tag.strip() for tag in raw_value.split(",") if tag.strip()]
tags(raw_value) == NonEmptyStripped(Split(raw_value))

\* mutant: the loop without "if field_def.required and raw_value is None: raise"
RequiredMissingNever(field_def, raw_fields) == FALSE

\* field_def.required and raw_value is None (raw_value = raw_fields.get(field_id))
RequiredMissing(field_def, raw_fields) ==
    field_def.required /\ field_def.id \notin DOMAIN raw_fields

\* mutant: validated_fields[field_id] = None for an absent field
DefaultNone(field_def) == PyNone

\* validated_fields[field_id] = field_def.default
DefaultOf(field_def) == field_def.default

\* mutant: the raw value of the other types stored stripped
PassThroughStripped(raw_value) == Strip(raw_value)

\* else: validated_fields[field_id] = raw_value
PassThrough(raw_value) == raw_value

NoError == [error |-> None]

MissingError(field_id) ==
    [error |-> "ValidationError", field |-> field_id, what |-> "missing"]

TypeError(field_id, type, raw_value) ==
    [error |-> "ValidationError", field |-> field_id, what |-> type, raw |-> raw_value]

\* the loop "for field_def in space.fields" of create_note, from field i on:
\* the error raised and the validated_fields built
RECURSIVE ValidateFrom(_, _, _, _)
ValidateFrom(fields, raw_fields, i, validated_fields) ==
    IF i > Len(fields) THEN [raised |-> NoError, fields |-> validated_fields]
    ELSE LET field_def == fields[i]
             field_id == field_def.id
             absent == field_id \notin DOMAIN raw_fields
             raw_value == raw_fields[field_id]
         IN  IF RequiredMissing(field_def, raw_fields)
             THEN [raised |-> MissingError(field_id), fields |-> validated_fields]
             ELSE IF absent
             THEN ValidateFrom(fields, raw_fields, i + 1,
                               DictSet(validated_fields, field_id, DefaultOf(field_def)))
             ELSE IF field_def.type = "int"
             THEN IF int_raises(raw_value)
                  THEN [raised |-> TypeError(field_id, "int", raw_value),
                        fields |-> validated_fields]
                  ELSE ValidateFrom(fields, raw_fields, i + 1,
                                    DictSet(validated_fields, field_id,
                                            PyInt(int(raw_value))))
             ELSE IF field_def.type = "float"
             THEN IF float_raises(raw_value)
                  THEN [raised |-> TypeError(field_id, "float", raw_value),
                        fields |-> validated_fields]
                  ELSE ValidateFrom(fields, raw_fields, i + 1,
                                    DictSet(validated_fields, field_id,
                                            PyFloat(float(raw_value))))
             ELSE IF field_def.type = "tags"
             THEN ValidateFrom(fields, raw_fields, i + 1,
                               DictSet(validated_fields, field_id, PyList(tags(raw_value))))
             ELSE ValidateFrom(fields, raw_fields, i + 1,
                               DictSet(validated_fields, field_id,
                                       PyStr(PassThrough(raw_value))))

\* mutant: validated_fields starts as a copy of raw_fields
ValidateFieldsKeepRaw(fields, raw_fields) == ValidateFrom(fields, raw_fields, 1, raw_fields)

\* validated_fields = {} and the loop
ValidateFields(fields, raw_fields) == ValidateFrom(fields, raw_fields, 1, EmptyDict)

(* --------------------------- CounterService -------------------------- *)
\* mutant: {"$set": {"seq": 1}} in place of {"$inc": {"seq": 1}}
IncSeqSet(seq) == 1

\* mutant: the increment left out of the update
IncSeqNone(seq) == seq

\* mutant: {"$inc": {"seq": 2}}
IncSeqTwice(seq) == seq + 2

\* {"$inc": {"seq": 1}} with upsert=True: a missing document counts as seq 0
IncSeq(seq) == seq + 1

\* the filter {"space_slug": space_slug} of get_next_note_number
NoteCounterMatches(doc_slug, space_slug) == doc_slug = space_slug

\* mutant: the filter of get_next_comment_number without "note_number"
CommentCounterMatchesSpace(doc_scope, space_slug, note_number) ==
    doc_scope[1] = space_slug

\* the filter {"space_slug": space_slug, "note_number": note_number} of
\* get_next_comment_number
CommentCounterMatches(doc_scope, space_slug, note_number) ==
    doc_scope = <<space_slug, note_number>>

\* mutant: return_document=ReturnDocument.BEFORE
ReturnedSeqBefore(before, after) == before

\* return_document=ReturnDocument.AFTER
ReturnedSeq(before, after) == after

(* -------------------------------- App -------------------------------- *)
\* mutant: _ensure_space_member without the check of space.members
EnsureSpaceMemberAuthenticated(auth_token, space_slug) ==
    IF get_user_by_token_raises(auth_token) THEN "AuthenticationError" ELSE "ok"

\* App._ensure_space_member: the error raised, or "ok"
EnsureSpaceMember(auth_token, space_slug) ==
    IF get_user_by_token_raises(auth_token) THEN "AuthenticationError"
    ELSE IF users_by_token[auth_token].username = "admin" THEN "ok"
    ELSE IF get_space_raises(space_slug) THEN "NotFoundError"
    ELSE IF ~InSeq(users_by_token[auth_token].username, spaces[space_slug].members)
    THEN "AccessDeniedError"
    ELSE "ok"

(* ----------------------- create_note (App, service) ------------------ *)
\* Note(space_slug=..., number=..., author_username=..., fields=...)
Note(space_slug, number, author_username, fields) ==
    [space_slug |-> space_slug, number |-> number,
     author_username |-> author_username, fields |-> fields]

\* the unique index on (space_slug, number) (NoteService.on_start)
NoteDuplicateKey(coll, note) ==
    \E d \in BagToSet(coll) :
        d.space_slug = note.space_slug /\ d.number = note.number

\* App.create_note and NoteService.create_note up to the first await:
\* the error raised, or "await"
CreateNoteCallOutcome(auth_token, space_slug) ==
    IF EnsureSpaceMember(auth_token, space_slug) # "ok"
    THEN EnsureSpaceMember(auth_token, space_slug)
    ELSE IF get_space_raises(space_slug) THEN "NotFoundError"
    ELSE "await"

\* create_note calls of this space that have not got their number yet
NotesToNumber(space_slug) ==
    BagCardinality([r \in {x \in InFlight : /\ x.op = "create_note"
                                            /\ x.pc = "find_one_and_update"
                                            /\ x.space_slug = space_slug}
                    |-> inflight[r]])

\* space = get_space(space_slug); await get_next_note_number(space_slug)
CreateNoteCall(auth_token, space_slug, raw_fields) ==
    /\ CanAccept
    /\ IF CreateNoteCallOutcome(auth_token, space_slug) = "await"
       THEN /\ note_counters[space_slug] + NotesToNumber(space_slug) < MaxSeq
            /\ Suspend([op |-> "create_note", pc |-> "find_one_and_update",
                        space_slug |-> space_slug,
                        author_username |-> users_by_token[auth_token].username,
                        raw_fields |-> raw_fields,
                        space_fields |-> spaces[space_slug].fields,
                        number |-> 0, fields |-> EmptyDict, error |-> NoError])
       ELSE UNCHANGED inflight
    /\ UNCHANGED <<phase, dbVars, cacheVars, issued_notes, issued_comments>>

\* the server executes find_one_and_update on "note_counters": one atomic step
GetNextNoteNumberDb(r) ==
    /\ r.op = "create_note" /\ r.pc = "find_one_and_update"
    /\ \/ LET before == note_counters[r.space_slug]
              after == IncSeq(before)
          IN  /\ note_counters' =
                     [s \in DOMAIN note_counters |->
                         IF NoteCounterMatches(s, r.space_slug)
                         THEN after ELSE note_counters[s]]
              /\ issued_notes' = [issued_notes EXCEPT ![r.space_slug] =
                                     Append(@, ReturnedSeq(before, after))]
              /\ Step(r, [r EXCEPT !.pc = "numbered",
                                   !.number = ReturnedSeq(before, after)])
       \/ /\ UNCHANGED <<note_counters, issued_notes>>
          /\ Step(r, [r EXCEPT !.pc = "CounterStorageError"])
    /\ UNCHANGED <<phase, dbUsers, dbSpaces, comment_counters, dbNotes, dbComments,
                   cacheVars, issued_comments>>

\* create_note between its awaits: the loop over space.fields, Note(...), and
\* await insert_one; or the loop raises ValidationError; or the exception of
\* get_next_note_number ends the call
CreateNoteValidate(r) ==
    /\ r.op = "create_note" /\ r.pc \in {"numbered", "CounterStorageError"}
    /\ IF r.pc = "CounterStorageError"
       THEN Finish(r)
       ELSE IF ValidateFields(r.space_fields, r.raw_fields).raised = NoError
       THEN Step(r, [r EXCEPT !.pc = "insert_one",
                              !.fields = ValidateFields(r.space_fields, r.raw_fields).fields])
       ELSE Step(r, [r EXCEPT !.pc = "ValidationError",
                              !.error = ValidateFields(r.space_fields, r.raw_fields).raised])
    /\ UNCHANGED <<phase, dbVars, cacheVars, issued_notes, issued_comments>>

\* mutant: replace_one({"space_slug": ...}, doc, upsert=True) in place of insert_one
NotesAfterReplace(coll, note) ==
    [d \in {x \in BagToSet(coll) : x.space_slug # note.space_slug} |-> coll[d]]
        (+) SetToBag({note})

\* "notes" after insert_one(note.model_dump())
NotesAfterInsert(coll, note) == coll (+) SetToBag({note})

\* the server executes insert_one(note.model_dump()) on "notes"
CreateNoteInsertDb(r) ==
    /\ r.op = "create_note" /\ r.pc = "insert_one"
    /\ LET note == Note(r.space_slug, r.number, r.author_username, r.fields)
       IN  \/ /\ ~NoteDuplicateKey(dbNotes, note)
              /\ dbNotes' = NotesAfterInsert(dbNotes, note)
              /\ Step(r, [r EXCEPT !.pc = "inserted"])
           \/ /\ dbNotes' = dbNotes
              /\ Step(r, [r EXCEPT !.pc = IF NoteDuplicateKey(dbNotes, note)
                                          THEN "DuplicateKeyError" ELSE "InsertStorageError"])
    /\ UNCHANGED <<phase, dbUsers, dbSpaces, note_counters, comment_counters, dbComments,
                   cacheVars, issued_notes, issued_comments>>

\* create_note ends: return note after insert_one, or the exception of insert_one
\* or the ValidationError propagates to the caller
CreateNoteResume(r) ==
    /\ r.op = "create_note"
    /\ r.pc \in {"inserted", "DuplicateKeyError", "InsertStorageError", "ValidationError"}
    /\ Finish(r)
    /\ UNCHANGED <<phase, dbVars, cacheVars, issued_notes, issued_comments>>

(* ---------------------- create_comment (App, service) ---------------- *)
\* Comment(space_slug=..., note_number=..., author_username=..., number=..., content=...)
Comment(space_slug, note_number, author_username, number, content) ==
    [space_slug |-> space_slug, note_number |-> note_number,
     author_username |-> author_username, number |-> number, content |-> content]

\* the unique index on (space_slug, note_number, number) (CommentService.on_start)
CommentDuplicateKey(coll, comment) ==
    \E d \in BagToSet(coll) :
        /\ d.space_slug = comment.space_slug
        /\ d.note_number = comment.note_number
        /\ d.number = comment.number

\* mutant: get_note without "if not doc: raise NotFoundError"
NoteFoundUnchecked(coll, space_slug, number) == TRUE

\* NoteService.get_note: find_one({"space_slug": ..., "number": ...}) gives a document
NoteFound(coll, space_slug, number) ==
    \E d \in BagToSet(coll) : d.space_slug = space_slug /\ d.number = number

\* App.create_comment up to the first await: the error raised, or "await"
CreateCommentCallOutcome(auth_token, space_slug) ==
    IF EnsureSpaceMember(auth_token, space_slug) # "ok"
    THEN EnsureSpaceMember(auth_token, space_slug)
    ELSE "await"

\* create_comment calls on this note that have not got their number yet
CommentsToNumber(space_slug, note_number) ==
    BagCardinality([r \in {x \in InFlight : /\ x.op = "create_comment"
                                            /\ x.pc \in {"find_one", "found",
                                                         "find_one_and_update"}
                                            /\ x.space_slug = space_slug
                                            /\ x.note_number = note_number}
                    |-> inflight[r]])

\* await get_note(space_slug, note_number)
CreateCommentCall(auth_token, space_slug, note_number, content) ==
    /\ CanAccept
    /\ IF CreateCommentCallOutcome(auth_token, space_slug) = "await"
       THEN /\ comment_counters[<<space_slug, note_number>>]
                   + CommentsToNumber(space_slug, note_number) < MaxSeq
            /\ Suspend([op |-> "create_comment", pc |-> "find_one",
                        space_slug |-> space_slug, note_number |-> note_number,
                        author_username |-> users_by_token[auth_token].username,
                        content |-> content, number |-> 0])
       ELSE UNCHANGED inflight
    /\ UNCHANGED <<phase, dbVars, cacheVars, issued_notes, issued_comments>>

\* the server executes find_one on "notes"
GetNoteDb(r) ==
    /\ r.op \in {"create_comment", "get_note"} /\ r.pc = "find_one"
    /\ \/ Step(r, [r EXCEPT !.pc = IF NoteFound(dbNotes, r.space_slug, r.note_number)
                                   THEN "found" ELSE "NotFoundError"])
       \/ Step(r, [r EXCEPT !.pc = "StorageError"])
    /\ UNCHANGED <<phase, dbVars, cacheVars, issued_notes, issued_comments>>

\* create_comment after get_note: await get_next_comment_number, or the
\* exception propagates
CreateCommentAfterGetNote(r) ==
    /\ r.op = "create_comment" /\ r.pc \in {"found", "NotFoundError", "StorageError"}
    /\ r.number = 0
    /\ IF r.pc = "found"
       THEN Step(r, [r EXCEPT !.pc = "find_one_and_update"])
       ELSE Finish(r)
    /\ UNCHANGED <<phase, dbVars, cacheVars, issued_notes, issued_comments>>

\* the server executes find_one_and_update on "comment_counters": one atomic step
GetNextCommentNumberDb(r) ==
    /\ r.op = "create_comment" /\ r.pc = "find_one_and_update"
    /\ \/ LET scope == <<r.space_slug, r.note_number>>
              before == comment_counters[scope]
              after == IncSeq(before)
          IN  /\ comment_counters' =
                     [k \in DOMAIN comment_counters |->
                         IF CommentCounterMatches(k, r.space_slug, r.note_number)
                         THEN after ELSE comment_counters[k]]
              /\ issued_comments' = [issued_comments EXCEPT ![scope] =
                                        Append(@, ReturnedSeq(before, after))]
              /\ Step(r, [r EXCEPT !.pc = "numbered",
                                   !.number = ReturnedSeq(before, after)])
       \/ /\ UNCHANGED <<comment_counters, issued_comments>>
          /\ Step(r, [r EXCEPT !.pc = "CounterStorageError"])
    /\ UNCHANGED <<phase, dbUsers, dbSpaces, note_counters, dbNotes, dbComments,
                   cacheVars, issued_notes>>

\* create_comment after get_next_comment_number: Comment(...) and await
\* insert_one, or the exception propagates
CreateCommentBuild(r) ==
    /\ r.op = "create_comment" /\ r.pc \in {"numbered", "CounterStorageError"}
    /\ IF r.pc = "numbered"
       THEN Step(r, [r EXCEPT !.pc = "insert_one"])
       ELSE Finish(r)
    /\ UNCHANGED <<phase, dbVars, cacheVars, issued_notes, issued_comments>>

\* the server executes insert_one(comment.model_dump()) on "comments"
CreateCommentInsertDb(r) ==
    /\ r.op = "create_comment" /\ r.pc = "insert_one"
    /\ LET comment == Comment(r.space_slug, r.note_number, r.author_username,
                              r.number, r.content)
       IN  \/ /\ ~CommentDuplicateKey(dbComments, comment)
              /\ dbComments' = dbComments (+) SetToBag({comment})
              /\ Step(r, [r EXCEPT !.pc = "inserted"])
           \/ /\ dbComments' = dbComments
              /\ Step(r, [r EXCEPT !.pc = IF CommentDuplicateKey(dbComments, comment)
                                          THEN "DuplicateKeyError" ELSE "InsertStorageError"])
    /\ UNCHANGED <<phase, dbUsers, dbSpaces, note_counters, comment_counters, dbNotes,
                   cacheVars, issued_notes, issued_comments>>

\* create_comment after insert_one: return comment, or the exception propagates
CreateCommentResume(r) ==
    /\ r.op = "create_comment"
    /\ r.pc \in {"inserted", "DuplicateKeyError", "InsertStorageError"}
    /\ Finish(r)
    /\ UNCHANGED <<phase, dbVars, cacheVars, issued_notes, issued_comments>>

(* ----------------------------- App.get_note -------------------------- *)
\* _ensure_space_member; await NoteService.get_note(space_slug, number)
GetNoteCall(auth_token, space_slug, number) ==
    /\ CanAccept
    /\ IF EnsureSpaceMember(auth_token, space_slug) = "ok"
       THEN Suspend([op |-> "get_note", pc |-> "find_one",
                     space_slug |-> space_slug, note_number |-> number])
       ELSE UNCHANGED inflight
    /\ UNCHANGED <<phase, dbVars, cacheVars, issued_notes, issued_comments>>

\* after the await: the note view is returned, or the exception propagates
GetNoteResume(r) ==
    /\ r.op = "get_note" /\ r.pc \in {"found", "NotFoundError", "StorageError"}
    /\ Finish(r)
    /\ UNCHANGED <<phase, dbVars, cacheVars, issued_notes, issued_comments>>

(* ------------------ list_notes, list_comments (App, service) --------- *)
\* the documents matching {"space_slug": space_slug} in "notes"
NotesQuery(coll, space_slug) == {d \in BagToSet(coll) : d.space_slug = space_slug}

\* the documents matching {"space_slug": ..., "note_number": ...} in "comments"
CommentsQuery(coll, space_slug, note_number) ==
    {d \in BagToSet(coll) : d.space_slug = space_slug /\ d.note_number = note_number}

\* cursor.sort("number", direction): direction 1 is ascending, -1 descending
RECURSIVE SortByNumber(_, _)
SortByNumber(docs, direction) ==
    IF docs = {} THEN <<>>
    ELSE LET first == CHOOSE d \in docs :
                          \A e \in docs : direction * d.number <= direction * e.number
         IN  <<first>> \o SortByNumber(docs \ {first}, direction)

\* mutant: the cursor without skip(offset)
SkipLimitNoSkip(docs, offset, limit) ==
    SubSeq(docs, 1, IF limit < Len(docs) THEN limit ELSE Len(docs))

\* cursor.skip(offset).limit(limit), for limit >= 1 and offset >= 0
SkipLimit(docs, offset, limit) ==
    SubSeq(docs, offset + 1, IF offset + limit < Len(docs) THEN offset + limit ELSE Len(docs))

\* App.list_notes, NoteService.list_notes up to the await of count_documents
ListNotesCall(auth_token, space_slug, limit, offset) ==
    /\ CanAccept
    /\ IF EnsureSpaceMember(auth_token, space_slug) = "ok"
       THEN Suspend([op |-> "list_notes", pc |-> "count_documents",
                     space_slug |-> space_slug, limit |-> limit, offset |-> offset,
                     total |-> 0, items |-> <<>>])
       ELSE UNCHANGED inflight
    /\ UNCHANGED <<phase, dbVars, cacheVars, issued_notes, issued_comments>>

\* the server executes count_documents(query) on "notes"; the coroutine then builds
\* the cursor and awaits to_list()
ListNotesCountDb(r) ==
    /\ r.op = "list_notes" /\ r.pc = "count_documents"
    /\ \/ Step(r, [r EXCEPT !.pc = "find",
                            !.total = Cardinality(NotesQuery(dbNotes, r.space_slug))])
       \/ Step(r, [r EXCEPT !.pc = "StorageError"])
    /\ UNCHANGED <<phase, dbVars, cacheVars, issued_notes, issued_comments>>

\* the server executes find(query).sort("number", -1).skip(offset).limit(limit)
ListNotesFindDb(r) ==
    /\ r.op = "list_notes" /\ r.pc = "find"
    /\ \/ Step(r, [r EXCEPT !.pc = "found",
                            !.items = SkipLimit(SortByNumber(NotesQuery(dbNotes, r.space_slug),
                                                             0 - 1),
                                                r.offset, r.limit)])
       \/ Step(r, [r EXCEPT !.pc = "StorageError"])
    /\ UNCHANGED <<phase, dbVars, cacheVars, issued_notes, issued_comments>>

\* list_notes returns PaginationResult(items, total, limit, offset), or the exception
\* propagates
ListNotesResume(r) ==
    /\ r.op = "list_notes" /\ r.pc \in {"found", "StorageError"}
    /\ Finish(r)
    /\ UNCHANGED <<phase, dbVars, cacheVars, issued_notes, issued_comments>>

\* App.list_comments, CommentService.list_comments up to the await of count_documents
ListCommentsCall(auth_token, space_slug, note_number, limit, offset) ==
    /\ CanAccept
    /\ IF EnsureSpaceMember(auth_token, space_slug) = "ok"
       THEN Suspend([op |-> "list_comments", pc |-> "count_documents",
                     space_slug |-> space_slug, note_number |-> note_number,
                     limit |-> limit, offset |-> offset, total |-> 0, items |-> <<>>])
       ELSE UNCHANGED inflight
    /\ UNCHANGED <<phase, dbVars, cacheVars, issued_notes, issued_comments>>

\* the server executes count_documents(query) on "comments"
ListCommentsCountDb(r) ==
    /\ r.op = "list_comments" /\ r.pc = "count_documents"
    /\ \/ Step(r, [r EXCEPT !.pc = "find",
                            !.total = Cardinality(CommentsQuery(dbComments, r.space_slug,
                                                                r.note_number))])
       \/ Step(r, [r EXCEPT !.pc = "StorageError"])
    /\ UNCHANGED <<phase, dbVars, cacheVars, issued_notes, issued_comments>>

\* the server executes find(query).sort("number", 1).skip(offset).limit(limit)
ListCommentsFindDb(r) ==
    /\ r.op = "list_comments" /\ r.pc = "find"
    /\ \/ Step(r, [r EXCEPT !.pc = "found",
                            !.items = SkipLimit(SortByNumber(CommentsQuery(dbComments,
                                                                 r.space_slug, r.note_number),
                                                             1),
                                                r.offset, r.limit)])
       \/ Step(r, [r EXCEPT !.pc = "StorageError"])
    /\ UNCHANGED <<phase, dbVars, cacheVars, issued_notes, issued_comments>>

\* list_comments returns PaginationResult(items, total, limit, offset), or the
\* exception propagates
ListCommentsResume(r) ==
    /\ r.op = "list_comments" /\ r.pc \in {"found", "StorageError"}
    /\ Finish(r)
    /\ UNCHANGED <<phase, dbVars, cacheVars, issued_notes, issued_comments>>

(* ---------------------------- next-state ----------------------------- *)
Startup ==
    \/ UpdateAllUsersCache
    \/ EnsureAdminUserExists
    \/ UpdateAllSpacesCache

UserRequests ==
    \/ \E a \in Tokens, u \in Usernames, t \in Tokens : CreateUserCall(a, u, t)
    \/ \E a \in Tokens, u \in Usernames : DeleteUserCall(a, u)
    \/ \E r \in InFlight : CreateUserDb(r)
    \/ \E r \in InFlight : CreateUserResume(r)
    \/ \E r \in InFlight : DeleteUserDb(r)
    \/ \E r \in InFlight : DeleteUserResume(r)

CreateSpaceRequests ==
    \/ \E a \in Tokens, s \in Slugs, t \in Titles : CreateSpaceCall(a, s, t)
    \/ \E r \in InFlight : CreateSpaceDb(r)
    \/ \E r \in InFlight : CreateSpaceResume(r)

AddMemberRequests ==
    \/ \E a \in Tokens, s \in Slugs, u \in Usernames : AddMemberCall(a, s, u)
    \/ \E r \in InFlight : AddMemberDb(r)
    \/ \E r \in InFlight : AddMemberResume(r)

\* users and spaces are created and users deleted
NextCache == Startup \/ UserRequests \/ CreateSpaceRequests

SpecCache == Init /\ [][NextCache]_vars

\* spaces are created and members added, by the users found at startup
NextSpaces == Startup \/ CreateSpaceRequests \/ AddMemberRequests

SpecSpaces == Init /\ [][NextSpaces]_vars

\* the bodies of the create_note requests the model sends
RawFields ==
    {EmptyDict,
     [priority |-> <<"3">>],
     [priority |-> <<"x">>]}

Contents == {"c"}

NoteRequests ==
    \/ \E a \in Tokens, s \in Slugs, f \in RawFields : CreateNoteCall(a, s, f)
    \/ \E r \in InFlight : GetNextNoteNumberDb(r)
    \/ \E r \in InFlight : CreateNoteValidate(r)
    \/ \E r \in InFlight : CreateNoteInsertDb(r)
    \/ \E r \in InFlight : CreateNoteResume(r)

CommentRequests ==
    \/ \E a \in Tokens, s \in Slugs, n \in 1..MaxSeq, c \in Contents :
          CreateCommentCall(a, s, n, c)
    \/ \E r \in InFlight : GetNoteDb(r)
    \/ \E r \in InFlight : CreateCommentAfterGetNote(r)
    \/ \E r \in InFlight : GetNextCommentNumberDb(r)
    \/ \E r \in InFlight : CreateCommentBuild(r)
    \/ \E r \in InFlight : CreateCommentInsertDb(r)
    \/ \E r \in InFlight : CreateCommentResume(r)

\* notes and comments are created in the spaces found at startup
NextRecords == Startup \/ NoteRequests \/ CommentRequests

SpecRecords == Init /\ [][NextRecords]_vars

(* ---------------- create_note against several schemas --------------- *)
\* the schemas of space "proj" the validation loop is run on
SchemaNumbers ==
    <<SpaceField("priority", "int", TRUE, [min |-> 1, max |-> 5], PyNone),
      SpaceField("ratio", "float", FALSE, [min |-> 0, max |-> 1], PyNone)>>

SchemaRequired ==
    <<SpaceField("count", "int", FALSE, EmptyDict, PyInt(0)),
      SpaceField("title", "string", TRUE, EmptyDict, PyNone),
      SpaceField("owner", "user", TRUE, EmptyDict, PyNone)>>

SchemaChoices ==
    <<SpaceField("labels", "tags", FALSE, EmptyDict, PyNone),
      SpaceField("status", "select", FALSE,
                 [values |-> <<<<"o", "p", "e", "n">>, <<"d", "o", "n", "e">>>>],
                 PyStr(<<"o", "p", "e", "n">>)),
      SpaceField("assignee", "user", FALSE, EmptyDict, PyNone),
      SpaceField("cover", "image", FALSE, [max_width |-> 100], PyNone)>>

Schemas == {SchemaNumbers, SchemaRequired, SchemaChoices}

\* the raw strings sent for a field of each type
RawChoices(field_def) ==
    CASE field_def.type = "int" ->
            {<<"3">>, <<"7">>, <<" ", "-", "4", "2">>, <<"x">>, <<"3", ".", "5">>}
      [] field_def.type = "float" ->
            {<<"7", ".", "5">>, <<" ", "-", ".", "5", "0">>, <<"3">>, <<".">>, <<"x">>}
      [] field_def.type = "tags" ->
            {<<"a", ",", " ", "b", ",", " ", " ", "b">>, <<" ", ",">>, <<"a">>}
      [] field_def.type = "select" ->
            {<<"d", "o", "n", "e">>, <<"z", "z">>}
      [] field_def.type = "user" ->
            {<<"a", "l", "i", "c", "e">>, <<"c", "a", "r", "o", "l">>}
      [] OTHER ->
            {<<" ", "h", "i">>}

\* the request bodies for a schema: every field absent or one of its raw strings,
\* with or without a key that is no field id
RECURSIVE InputsFrom(_, _)
InputsFrom(fields, i) ==
    IF i > Len(fields) THEN {EmptyDict, [extra |-> <<"x">>]}
    ELSE LET rest == InputsFrom(fields, i + 1)
         IN  rest \cup {DictSet(d, fields[i].id, v) :
                            d \in rest, v \in RawChoices(fields[i])}

RawInputs(fields) == InputsFrom(fields, 1)

\* the store holds the seeded users and space "proj" with one of the schemas
InitSchemas ==
    \E fields \in Schemas :
        Constructed(SeedUsers, {Space("proj", "T", <<"alice">>, fields)})

\* member alice creates notes in "proj", one call at a time
ValidateNoteRequests ==
    \/ /\ phase = "ready" /\ inflight = EmptyBag
       /\ \E f \in RawInputs(spaces["proj"].fields) : CreateNoteCall("ta", "proj", f)
    \/ \E r \in InFlight : GetNextNoteNumberDb(r)
    \/ \E r \in InFlight : CreateNoteValidate(r)
    \/ \E r \in InFlight : CreateNoteInsertDb(r)
    \/ \E r \in InFlight : CreateNoteResume(r)

NextValidate == Startup \/ ValidateNoteRequests

SpecValidate == InitSchemas /\ [][NextValidate]_vars

\* the admin creates notes in every space and comments on the notes of "proj"
ScopeNoteRequests ==
    \/ \E s \in Slugs : CreateNoteCall("admin", s, [priority |-> <<"3">>])
    \/ \E r \in InFlight : GetNextNoteNumberDb(r)
    \/ \E r \in InFlight : CreateNoteValidate(r)
    \/ \E r \in InFlight : CreateNoteInsertDb(r)
    \/ \E r \in InFlight : CreateNoteResume(r)

ScopeCommentRequests ==
    \/ \E n \in 1..MaxSeq, c \in Contents : CreateCommentCall("admin", "proj", n, c)
    \/ \E r \in InFlight : GetNoteDb(r)
    \/ \E r \in InFlight : CreateCommentAfterGetNote(r)
    \/ \E r \in InFlight : GetNextCommentNumberDb(r)
    \/ \E r \in InFlight : CreateCommentBuild(r)
    \/ \E r \in InFlight : CreateCommentInsertDb(r)
    \/ \E r \in InFlight : CreateCommentResume(r)

\* notes and comments are created in the seeded space and in spaces created later
NextScopes ==
    Startup \/ CreateSpaceRequests \/ ScopeNoteRequests \/ ScopeCommentRequests

SpecScopes == Init /\ [][NextScopes]_vars

ReloadRequests ==
    \/ UpdateAllUsersCacheCall
    \/ \E r \in InFlight : UpdateAllUsersCacheDb(r)
    \/ \E r \in InFlight : UpdateAllUsersCacheResume(r)
    \/ UpdateAllSpacesCacheCall
    \/ \E r \in InFlight : UpdateAllSpacesCacheDb(r)
    \/ \E r \in InFlight : UpdateAllSpacesCacheResume(r)

\* admin creates and deletes users
AdminUserRequests ==
    \/ \E u \in Usernames, t \in Tokens : CreateUserCall("admin", u, t)
    \/ \E u \in Usernames : DeleteUserCall("admin", u)
    \/ \E r \in InFlight : CreateUserDb(r)
    \/ \E r \in InFlight : CreateUserResume(r)
    \/ \E r \in InFlight : DeleteUserDb(r)
    \/ \E r \in InFlight : DeleteUserResume(r)

\* admin adds bob to "proj"
AdminMemberRequests ==
    \/ AddMemberCall("admin", "proj", "bob")
    \/ \E r \in InFlight : AddMemberDb(r)
    \/ \E r \in InFlight : AddMemberResume(r)

\* users are created and deleted, members added, and the caches reloaded
NextReload == Startup \/ AdminUserRequests \/ AdminMemberRequests \/ ReloadRequests

SpecReload == Init /\ [][NextReload]_vars

\* the limits and offsets the routers let through (limit >= 1, offset >= 0)
ListLimits == {2, 5}

ListOffsets == {0, 2}

ListNotesRequests ==
    \/ \E a \in Tokens, s \in Slugs, l \in ListLimits, o \in ListOffsets :
          ListNotesCall(a, s, l, o)
    \/ \E r \in InFlight : ListNotesCountDb(r)
    \/ \E r \in InFlight : ListNotesFindDb(r)
    \/ \E r \in InFlight : ListNotesResume(r)

ListCommentsRequests ==
    \/ \E a \in Tokens, s \in Slugs, n \in 1..MaxSeq, l \in ListLimits, o \in ListOffsets :
          ListCommentsCall(a, s, n, l, o)
    \/ \E r \in InFlight : ListCommentsCountDb(r)
    \/ \E r \in InFlight : ListCommentsFindDb(r)
    \/ \E r \in InFlight : ListCommentsResume(r)

\* the numbers of the notes of "proj" and of the comments of its note 1 that an
\* earlier run left in the store
ListedNotes == 1..5

ListedComments == 1..3

\* Core.__init__ on a store an earlier run left: the seeded users, "proj" with five
\* notes and three comments on note 1, and "docs" with no note yet
InitListing ==
    /\ phase = "constructed"
    /\ dbUsers = SeedUsers
    /\ dbSpaces = SeedSpaces \cup {Space("docs", "T", <<>>, <<>>)}
    /\ note_counters = [s \in Slugs |-> IF s = "proj" THEN Cardinality(ListedNotes) ELSE 0]
    /\ comment_counters = [k \in Slugs \X (1..MaxSeq) |->
                              IF k = <<"proj", 1>> THEN Cardinality(ListedComments) ELSE 0]
    /\ dbNotes = SetToBag({Note("proj", n, "alice", [priority |-> PyInt(3)]) :
                              n \in ListedNotes})
    /\ dbComments = SetToBag({Comment("proj", 1, "alice", n, "c") : n \in ListedComments})
    /\ users = EmptyDict
    /\ users_by_token = EmptyDict
    /\ spaces = EmptyDict
    /\ inflight = EmptyBag
    /\ issued_notes = [s \in Slugs |-> <<>>]
    /\ issued_comments = [k \in Slugs \X (1..MaxSeq) |-> <<>>]

\* admin creates notes in "docs" and comments on note 2 of "proj" while lists are read
ListedNoteRequests ==
    \/ CreateNoteCall("admin", "docs", EmptyDict)
    \/ \E r \in InFlight : GetNextNoteNumberDb(r)
    \/ \E r \in InFlight : CreateNoteValidate(r)
    \/ \E r \in InFlight : CreateNoteInsertDb(r)
    \/ \E r \in InFlight : CreateNoteResume(r)

ListedCommentRequests ==
    \/ \E c \in Contents : CreateCommentCall("admin", "proj", 2, c)
    \/ \E r \in InFlight : GetNoteDb(r)
    \/ \E r \in InFlight : CreateCommentAfterGetNote(r)
    \/ \E r \in InFlight : GetNextCommentNumberDb(r)
    \/ \E r \in InFlight : CreateCommentBuild(r)
    \/ \E r \in InFlight : CreateCommentInsertDb(r)
    \/ \E r \in InFlight : CreateCommentResume(r)

NextListing == Startup \/ ListNotesRequests \/ ListCommentsRequests
                  \/ ListedNoteRequests \/ ListedCommentRequests

SpecListing == InitListing /\ [][NextListing]_vars

\* the field admin adds to "proj"
AddedField == SpaceField("ratio", "float", FALSE, [min |-> 0, max |-> 1], PyNone)

\* admin adds and removes fields of "proj" and adds alice's fellow members
SchemaRequests ==
    \/ AddFieldCall("admin", "proj", AddedField)
    \/ \E f \in {"priority", "ratio"} : RemoveFieldCall("admin", "proj", f)
    \/ \E r \in InFlight : SetFieldsDb(r)
    \/ \E r \in InFlight : SetFieldsResume(r)
    \/ AddMemberCall("admin", "proj", "admin")
    \/ \E r \in InFlight : AddMemberDb(r)
    \/ \E r \in InFlight : AddMemberResume(r)

\* member alice creates notes in "proj"
SchemaNoteRequests ==
    \/ \E f \in {[priority |-> <<"3">>], [priority |-> <<"7">>, ratio |-> <<"7", ".", "5">>]} :
          CreateNoteCall("ta", "proj", f)
    \/ \E r \in InFlight : GetNextNoteNumberDb(r)
    \/ \E r \in InFlight : CreateNoteValidate(r)
    \/ \E r \in InFlight : CreateNoteInsertDb(r)
    \/ \E r \in InFlight : CreateNoteResume(r)

NextSchema == Startup \/ SchemaRequests \/ SchemaNoteRequests

SpecSchema == Init /\ [][NextSchema]_vars

GetNoteRequests ==
    \/ \E a \in Tokens, s \in Slugs, n \in 1..MaxSeq : GetNoteCall(a, s, n)
    \/ \E r \in InFlight : GetNoteDb(r)
    \/ \E r \in InFlight : GetNoteResume(r)

\* a store where bob is a user and no member of any space, and "docs" has no members
InitAccess ==
    Constructed(SeedUsers \cup {User("bob", "tb")},
                SeedSpaces \cup {Space("docs", "T", <<>>, <<>>)})

\* the tokens of admin, alice and bob, and a token of nobody
AccessTokens == Tokens \cup {"tz"}

\* bob and a caller with a token of nobody create notes and comments, and admin
\* creates notes in "docs"
AccessCreateRequests ==
    \/ \E a \in {"tb", "tz"}, s \in Slugs : CreateNoteCall(a, s, [priority |-> <<"3">>])
    \/ CreateNoteCall("admin", "docs", EmptyDict)
    \/ \E r \in InFlight : GetNextNoteNumberDb(r)
    \/ \E r \in InFlight : CreateNoteValidate(r)
    \/ \E r \in InFlight : CreateNoteInsertDb(r)
    \/ \E r \in InFlight : CreateNoteResume(r)
    \/ \E a \in {"tb", "tz"}, s \in Slugs, c \in Contents : CreateCommentCall(a, s, 1, c)
    \/ \E r \in InFlight : GetNoteDb(r)
    \/ \E r \in InFlight : CreateCommentAfterGetNote(r)
    \/ \E r \in InFlight : GetNextCommentNumberDb(r)
    \/ \E r \in InFlight : CreateCommentBuild(r)
    \/ \E r \in InFlight : CreateCommentInsertDb(r)
    \/ \E r \in InFlight : CreateCommentResume(r)

\* bob reads and lists
AccessReadRequests ==
    \/ \E s \in Slugs : GetNoteCall("tb", s, 1)
    \/ \E r \in InFlight : GetNoteResume(r)
    \/ \E s \in Slugs : ListNotesCall("tb", s, 2, 0)
    \/ \E r \in InFlight : ListNotesCountDb(r)
    \/ \E r \in InFlight : ListNotesFindDb(r)
    \/ \E r \in InFlight : ListNotesResume(r)
    \/ \E s \in Slugs : ListCommentsCall("tb", s, 1, 2, 0)
    \/ \E r \in InFlight : ListCommentsCountDb(r)
    \/ \E r \in InFlight : ListCommentsFindDb(r)
    \/ \E r \in InFlight : ListCommentsResume(r)

\* notes are created, read, listed and commented on while admin adds bob to "proj"
NextAccess == Startup \/ AdminMemberRequests \/ AccessCreateRequests \/ AccessReadRequests

SpecAccess == InitAccess /\ [][NextAccess]_vars

\* the holder of the token tb creates notes in "proj"
MemberNoteRequests ==
    \/ CreateNoteCall("tb", "proj", [priority |-> <<"3">>])
    \/ \E r \in InFlight : GetNextNoteNumberDb(r)
    \/ \E r \in InFlight : CreateNoteValidate(r)
    \/ \E r \in InFlight : CreateNoteInsertDb(r)
    \/ \E r \in InFlight : CreateNoteResume(r)

\* admin deletes and creates users while notes are created; nobody calls add_member
NextMembers == Startup \/ AdminUserRequests \/ MemberNoteRequests

SpecMembers == Init /\ [][NextMembers]_vars

Next == Startup \/ UserRequests \/ CreateSpaceRequests \/ AddMemberRequests
           \/ NoteRequests \/ CommentRequests \/ ReloadRequests
           \/ ListNotesRequests \/ ListCommentsRequests
           \/ SchemaRequests \/ GetNoteRequests

Spec == Init /\ [][Next]_vars

(* ============================== claims =============================== *)
StrictlyIncreasing(seq) == \A i, j \in 1..Len(seq) : i < j => seq[i] < seq[j]

StartsAtOne(seq) == seq # <<>> => seq[1] = 1

Scopes == Slugs \X (1..MaxSeq)

\* C1: for every scope (a space for note numbers, a note for comment numbers) the
\* numbers returned by get_next_note_number / get_next_comment_number, taken in
\* commit order, start at 1 and are strictly increasing, so no value is returned twice.
C1_NumbersStrictlyIncreasingFromOne ==
    /\ \A s \in Slugs :
          StartsAtOne(issued_notes[s]) /\ StrictlyIncreasing(issued_notes[s])
    /\ \A k \in Scopes :
          StartsAtOne(issued_comments[k]) /\ StrictlyIncreasing(issued_comments[k])

\* two create_comment calls on one stored note hold the numbers 1 and 2 at the same
\* time: both ran find_one_and_update before either went on
C1_Witness ==
    \E r1, r2 \in InFlight :
        /\ r1.op = "create_comment" /\ r2.op = "create_comment"
        /\ r1.space_slug = r2.space_slug /\ r1.note_number = r2.note_number
        /\ r1.pc = "numbered" /\ r2.pc = "numbered"
        /\ r1.number = 1 /\ r2.number = 2
        /\ issued_notes[r1.space_slug] # <<>>

\* C2 (as claimed): once startup is done and no request is in flight, the user cache
\* (both indexes) and the space cache hold exactly the documents of the users and
\* spaces collections.
C2_QuiescentCacheMirrorsStore ==
    (phase = "ready" /\ inflight = EmptyBag) =>
        /\ users = UsersByUsername(dbUsers)
        /\ users_by_token = UsersByToken(dbUsers)
        /\ spaces = SpacesBySlug(dbSpaces)

\* C3 (as claimed): in every state the two user-cache indexes agree: a user is in the
\* username index exactly if the token index maps that user's token to that same user.
C3_UserIndexesAgree ==
    /\ \A u \in DOMAIN users :
          /\ users[u].token \in DOMAIN users_by_token
          /\ users_by_token[users[u].token] = users[u]
    /\ \A t \in DOMAIN users_by_token :
          /\ users_by_token[t].username \in DOMAIN users
          /\ users[users_by_token[t].username] = users_by_token[t]

\* the requests whose number of copies in flight changes in a step
Moved == {r \in BagToSet(inflight) \cup BagToSet(inflight') :
             CopiesIn(r, inflight) # CopiesIn(r, inflight')}

Returns(r) == CopiesIn(r, inflight') < CopiesIn(r, inflight)

\* C4 (amended): create_user and create_space are write-through. The step in which a
\* call returns after a successful insert leaves the entity in the cache (for a user
\* under its username and under its token, the same value in both); every other step
\* of a create call, a failed call's return included, leaves both user indexes and the
\* space cache as they were.
C4_CreateWriteThrough ==
    [][\A r \in Moved :
          /\ r.op = "create_user" =>
                IF Returns(r) /\ r.pc = "inserted"
                THEN /\ r.username \in DOMAIN users'
                     /\ users'[r.username] = User(r.username, r.token)
                     /\ r.token \in DOMAIN users_by_token'
                     /\ users_by_token'[r.token] = User(r.username, r.token)
                     /\ spaces' = spaces
                ELSE cacheVars' = cacheVars
          /\ r.op = "create_space" =>
                IF Returns(r) /\ r.pc = "inserted"
                THEN /\ r.slug \in DOMAIN spaces'
                     /\ spaces'[r.slug] = Space(r.slug, r.title, <<>>, <<>>)
                     /\ userCache' = userCache
                ELSE cacheVars' = cacheVars]_vars

\* a create_user call is about to return its insert's failure while the user another
\* call created under the same username is cached, and a created space is cached
C4_Witness ==
    /\ \E r \in InFlight :
          /\ r.op = "create_user" /\ r.pc \in {"DuplicateKeyError", "StorageError"}
          /\ r.username # "admin"
          /\ has_username(r.username)
          /\ users[r.username].token \in DOMAIN users_by_token
    /\ has_slug("docs")

\* C4 (as claimed): when the durable insert failed, has_username / has_slug for the
\* key is false.
C4_FailedInsertKeyAbsent ==
    \A r \in InFlight :
        /\ (r.op = "create_user" /\ r.pc \in {"DuplicateKeyError", "StorageError"})
              => ~has_username(r.username)
        /\ (r.op = "create_space" /\ r.pc \in {"DuplicateKeyError", "StorageError"})
              => ~has_slug(r.slug)

\* C5 (as claimed): while add_member's durable update is in flight, and after it
\* failed, the cached space does not list the new member.
C5_MemberCachedAfterPersist ==
    \A r \in InFlight :
        (r.op = "add_member" /\ r.pc \in {"update_one", "StorageError"})
            => ~InSeq(r.username, spaces[r.slug].members)

\* C6 (as claimed): when delete_user returns, after a failed durable delete both cache
\* indexes are unchanged; after a successful one get_user(username) raises
\* NotFoundError and the token of the user document the delete removed is no key of
\* the token index that leads to this username.
C6_DeleteRemovesFromBothIndexes ==
    [][\A r \in Moved :
          (r.op = "delete_user" /\ Returns(r) /\ r.pc \in {"deleted", "StorageError"}) =>
             IF r.pc = "StorageError"
             THEN userCache' = userCache
             ELSE /\ r.username \notin DOMAIN users'
                  /\ \A d \in r.deleted :
                        \/ d.token \notin DOMAIN users_by_token'
                        \/ users_by_token'[d.token].username # r.username]_vars

\* C7 (as claimed): create_note validates the fields before it allocates the number,
\* so a request that schema validation rejects holds no number: it incremented no counter.
C7_ValidatedBeforeNumberAllocated ==
    \A r \in InFlight :
        (r.op = "create_note" /\ r.number > 0)
            => ValidateFields(r.space_fields, r.raw_fields).raised = NoError

\* C8: no step decreases, resets or deletes a sequence counter, and a number once
\* returned for a scope is never returned for it again, also when the insert of the
\* note or comment that held it failed.
C8_CountersNeverRolledBack ==
    [][/\ \A s \in Slugs :
             /\ note_counters'[s] >= note_counters[s]
             /\ issued_notes'[s] # issued_notes[s]
                   => /\ Len(issued_notes'[s]) = Len(issued_notes[s]) + 1
                      /\ SubSeq(issued_notes'[s], 1, Len(issued_notes[s])) = issued_notes[s]
                      /\ ~InSeq(issued_notes'[s][Len(issued_notes'[s])], issued_notes[s])
       /\ \A k \in Scopes :
             /\ comment_counters'[k] >= comment_counters[k]
             /\ issued_comments'[k] # issued_comments[k]
                   => /\ Len(issued_comments'[k]) = Len(issued_comments[k]) + 1
                      /\ SubSeq(issued_comments'[k], 1, Len(issued_comments[k]))
                            = issued_comments[k]
                      /\ ~InSeq(issued_comments'[k][Len(issued_comments'[k])],
                                issued_comments[k])]_vars

\* the insert of note 1 failed and nobody holds its number; the counter went on to 2
\* and note 2 is stored: number 1 is a gap
C8_Witness ==
    \E s \in Slugs :
        /\ note_counters[s] = 2
        /\ issued_notes[s] = <<1, 2>>
        /\ ~\E d \in BagToSet(dbNotes) : d.space_slug = s /\ d.number = 1
        /\ \E d \in BagToSet(dbNotes) : d.space_slug = s /\ d.number = 2
        /\ ~\E r \in InFlight : r.op = "create_note" /\ r.space_slug = s

\* the documents in a collection together with those handed to insert_one
NotesWritten ==
    dbNotes (+) [n \in {Note(r.space_slug, r.number, r.author_username, r.fields) :
                        r \in {x \in InFlight : x.op = "create_note" /\ x.pc = "insert_one"}}
                 |-> BagCardinality(
                        [x \in {y \in InFlight :
                                  /\ y.op = "create_note" /\ y.pc = "insert_one"
                                  /\ Note(y.space_slug, y.number, y.author_username,
                                          y.fields) = n}
                         |-> inflight[x]])]

CommentsWritten ==
    dbComments (+) [c \in {Comment(r.space_slug, r.note_number, r.author_username,
                                   r.number, r.content) :
                           r \in {x \in InFlight :
                                    x.op = "create_comment" /\ x.pc = "insert_one"}}
                    |-> BagCardinality(
                           [x \in {y \in InFlight :
                                     /\ y.op = "create_comment" /\ y.pc = "insert_one"
                                     /\ Comment(y.space_slug, y.note_number,
                                                y.author_username, y.number,
                                                y.content) = c}
                            |-> inflight[x]])]

\* C9: no two persisted notes share (space_slug, number) and no two persisted comments
\* share (space_slug, note_number, number); the same holds of the documents handed to
\* insert_one and not yet stored, so no insert ever meets a taken key.
C9_RecordKeysUnique ==
    /\ \A d \in BagToSet(NotesWritten) :
          /\ NotesWritten[d] = 1
          /\ \A e \in BagToSet(NotesWritten) :
                (e.space_slug = d.space_slug /\ e.number = d.number) => e = d
    /\ \A d \in BagToSet(CommentsWritten) :
          /\ CommentsWritten[d] = 1
          /\ \A e \in BagToSet(CommentsWritten) :
                (/\ e.space_slug = d.space_slug
                 /\ e.note_number = d.note_number
                 /\ e.number = d.number) => e = d

\* two notes of one space and two comments of one note are stored, after an insert failed
C9_Witness ==
    /\ \E d, e \in BagToSet(dbNotes) : d.space_slug = e.space_slug /\ d.number # e.number
    /\ \E d, e \in BagToSet(dbComments) :
          /\ d.space_slug = e.space_slug /\ d.note_number = e.note_number
          /\ d.number # e.number
    /\ \E k \in Scopes : comment_counters[k] = 2

\* C10: creation in a missing scope fails with NotFoundError before any side effect.
\* For a slug absent from the space cache every authenticated create_note call raises
\* NotFoundError, the space's counter is untouched, no note of it is stored and no call
\* for it is past the lookup; for a (space, number) with no stored note no comment
\* counter exists, no comment is stored, and every create_comment call for it is still
\* looking the note up or has failed without a number.
C10_MissingScopeNoSideEffect ==
    /\ \A s \in Slugs :
          (phase = "ready" /\ s \notin DOMAIN spaces) =>
             /\ \A a \in DOMAIN users_by_token :
                   CreateNoteCallOutcome(a, s) = "NotFoundError"
             /\ note_counters[s] = 0 /\ issued_notes[s] = <<>>
             /\ ~\E d \in BagToSet(dbNotes) : d.space_slug = s
             /\ ~\E r \in InFlight : r.op = "create_note" /\ r.space_slug = s
    /\ \A k \in Scopes :
          (~\E d \in BagToSet(dbNotes) : d.space_slug = k[1] /\ d.number = k[2]) =>
             /\ comment_counters[k] = 0 /\ issued_comments[k] = <<>>
             /\ ~\E c \in BagToSet(dbComments) :
                   c.space_slug = k[1] /\ c.note_number = k[2]
             /\ \A r \in InFlight :
                   (r.op = "create_comment" /\ r.space_slug = k[1] /\ r.note_number = k[2])
                      => r.pc \in {"find_one", "NotFoundError", "StorageError"} /\ r.number = 0

\* a create_comment call was answered "no such note", and a slug is absent from the
\* cache while notes of another space exist
C10_Witness ==
    /\ \E r \in InFlight : r.op = "create_comment" /\ r.pc = "NotFoundError"
    /\ \E s \in Slugs : phase = "ready" /\ s \notin DOMAIN spaces
    /\ dbNotes # EmptyBag

\* the counters a step changes
NoteCountersChanged == {s \in Slugs : note_counters'[s] # note_counters[s]}

CommentCountersChanged == {k \in Scopes : comment_counters'[k] # comment_counters[k]}

\* C11: counters of different scopes are independent. A step changes at most one
\* counter, and only the one of the scope of the call whose find_one_and_update it
\* executes: an allocation for a space leaves every other space's counter and every
\* comment counter unchanged, an allocation for a note leaves every other note's counter
\* and every note counter unchanged. So the first number issued in each scope is 1.
C11_ScopesIndependent ==
    [][/\ Cardinality(NoteCountersChanged) + Cardinality(CommentCountersChanged) <= 1
       /\ \A s \in NoteCountersChanged :
             \E r \in Moved : /\ r.op = "create_note" /\ r.pc = "find_one_and_update"
                              /\ Returns(r) /\ r.space_slug = s
       /\ \A k \in CommentCountersChanged :
             \E r \in Moved : /\ r.op = "create_comment" /\ r.pc = "find_one_and_update"
                              /\ Returns(r) /\ <<r.space_slug, r.note_number>> = k
       /\ \A s \in Slugs : issued_notes'[s] # <<>> => issued_notes'[s][1] = 1
       /\ \A k \in Scopes : issued_comments'[k] # <<>> => issued_comments'[k][1] = 1]_vars

\* two spaces have issued note numbers, one of them twice, and two notes of one space
\* have each issued their first comment number
C11_Witness ==
    /\ issued_notes["proj"] = <<1, 2>>
    /\ issued_notes["docs"] = <<1>>
    /\ issued_comments[<<"proj", 1>>] = <<1>>
    /\ issued_comments[<<"proj", 2>>] = <<1>>

\* create_note calls whose validation loop has run
Validated ==
    {r \in InFlight :
        /\ r.op = "create_note"
        /\ r.pc \in {"ValidationError", "insert_one", "inserted",
                     "DuplicateKeyError", "InsertStorageError"}}

Accepted == {r \in Validated : r.pc # "ValidationError"}

Absent(r, i) == r.space_fields[i].id \notin DOMAIN r.raw_fields

RawOf(r, i) == r.raw_fields[r.space_fields[i].id]

\* the required fields of the schema the input omits
MissingRequired(r) ==
    {i \in 1..Len(r.space_fields) : r.space_fields[i].required /\ Absent(r, i)}

\* the int and float fields whose raw value does not parse
Unparsable(r) ==
    {i \in 1..Len(r.space_fields) :
        /\ ~Absent(r, i)
        /\ \/ r.space_fields[i].type = "int" /\ int_raises(RawOf(r, i))
           \/ r.space_fields[i].type = "float" /\ float_raises(RawOf(r, i))}

Min(S) == CHOOSE x \in S : \A y \in S : x <= y

NotePersisted(r) ==
    \E d \in BagToSet(dbNotes) : d.space_slug = r.space_slug /\ d.number = r.number

\* C12 (as claimed): a create_note whose input omits a required field fails with a
\* ValidationError naming the first omitted required field in schema order, and no
\* note is persisted.
C12_MissingRequiredNamed ==
    \A r \in Validated :
        MissingRequired(r) # {} =>
            /\ r.pc = "ValidationError"
            /\ r.error.what = "missing"
            /\ r.error.field = r.space_fields[Min(MissingRequired(r))].id
            /\ ~NotePersisted(r)

\* C12 (amended): a create_note whose input omits a required field fails with a
\* ValidationError and no note is persisted; the error names the first field in schema
\* order that is an omitted required field or an int / float field whose value does
\* not parse, so it names the first omitted required field exactly when no field
\* before it fails to parse.
C12_FirstFailingFieldNamed ==
    \A r \in Validated :
        MissingRequired(r) # {} =>
            LET first == Min(MissingRequired(r) \cup Unparsable(r))
            IN  /\ r.pc = "ValidationError"
                /\ r.error.field = r.space_fields[first].id
                /\ r.error.what = IF first \in MissingRequired(r)
                                  THEN "missing" ELSE r.space_fields[first].type
                /\ ~NotePersisted(r)

\* a call that omits two required fields has failed, naming the first of them
C12_Witness ==
    \E r \in Validated :
        /\ Cardinality(MissingRequired(r)) = 2
        /\ Unparsable(r) = {}
        /\ r.pc = "ValidationError"
        /\ r.error = MissingError(r.space_fields[Min(MissingRequired(r))].id)
        /\ r.number > 0

\* the stored document of a call whose insert_one succeeded
StoredNote(r) ==
    CHOOSE d \in BagToSet(dbNotes) : d.space_slug = r.space_slug /\ d.number = r.number

\* the optional fields of the schema the input omits
OmittedOptional(r) ==
    {i \in 1..Len(r.space_fields) : ~r.space_fields[i].required /\ Absent(r, i)}

\* C13: for every schema field that is not required and is absent from the input, the
\* note built by a create_note call, and the document stored when its insert succeeds,
\* hold the field's configured default under the field id.
C13_DefaultStoredForOmittedOptional ==
    \A r \in Accepted :
        \A i \in OmittedOptional(r) :
            /\ r.space_fields[i].id \in DOMAIN r.fields
            /\ r.fields[r.space_fields[i].id] = r.space_fields[i].default
            /\ r.pc = "inserted" =>
                  /\ NotePersisted(r)
                  /\ StoredNote(r).fields[r.space_fields[i].id] = r.space_fields[i].default

\* a note was stored whose input omitted an optional field with default 0 and gave
\* the required fields
C13_Witness ==
    \E r \in Accepted :
        /\ r.pc = "inserted"
        /\ \E i \in OmittedOptional(r) :
              /\ r.space_fields[i].default = PyInt(0)
              /\ StoredNote(r).fields[r.space_fields[i].id] = PyInt(0)
        /\ \E i \in 1..Len(r.space_fields) : r.space_fields[i].required

\* the fields of the schema of a given type for which the input has a value
Present(r, types) ==
    {i \in 1..Len(r.space_fields) : r.space_fields[i].type \in types /\ ~Absent(r, i)}

\* the comma-separated segments of a raw string, trimmed, the empty ones dropped
TrimmedSegments(raw_value) ==
    SelectSeq([k \in 1..Len(Split(raw_value)) |-> Strip(Split(raw_value)[k])],
              LAMBDA x : x # <<>>)

\* C14: for a tag-list field the value of the note, and of the stored document, is the
\* list of the comma-separated segments of the raw string, each trimmed, empty segments
\* dropped, order and duplicates kept: raw "a, b,  b" gives ["a", "b", "b"].
C14_TagsSplitTrimmedInOrder ==
    \A r \in Accepted :
        \A i \in Present(r, {"tags"}) :
            LET stored == r.fields[r.space_fields[i].id]
            IN  /\ stored = PyList(TrimmedSegments(RawOf(r, i)))
                /\ RawOf(r, i) = <<"a", ",", " ", "b", ",", " ", " ", "b">>
                      => stored.val = <<<<"a">>, <<"b">>, <<"b">>>>
                /\ RawOf(r, i) = <<" ", ",">> => stored.val = <<>>
                /\ r.pc = "inserted" =>
                      /\ NotePersisted(r)
                      /\ StoredNote(r).fields[r.space_fields[i].id] = stored

\* a note with raw tags "a, b,  b" was stored with the list ["a", "b", "b"]
C14_Witness ==
    \E r \in Accepted :
        /\ r.pc = "inserted"
        /\ \E i \in Present(r, {"tags"}) :
              /\ RawOf(r, i) = <<"a", ",", " ", "b", ",", " ", " ", "b">>
              /\ StoredNote(r).fields[r.space_fields[i].id]
                    = PyList(<<<<"a">>, <<"b">>, <<"b">>>>)

\* the field ids of a schema
FieldIds(fields) == {fields[i].id : i \in 1..Len(fields)}

\* C15: the keys of the validated field map, and of the stored document's field map,
\* are exactly the field ids of the space's schema: an optional field that was omitted
\* is still a key, and an input key that is no field of the schema is dropped, the
\* call succeeding all the same.
C15_StoredKeysAreSchemaIds ==
    \A r \in Accepted :
        /\ DOMAIN r.fields = FieldIds(r.space_fields)
        /\ r.pc = "inserted" =>
              /\ NotePersisted(r)
              /\ DOMAIN StoredNote(r).fields = FieldIds(r.space_fields)

\* a note was stored from an input that had a key outside the schema and lacked an
\* optional field of the schema
C15_Witness ==
    \E r \in Accepted :
        /\ r.pc = "inserted"
        /\ DOMAIN r.raw_fields \ FieldIds(r.space_fields) # {}
        /\ FieldIds(r.space_fields) \ DOMAIN r.raw_fields # {}
        /\ DOMAIN StoredNote(r).fields = FieldIds(r.space_fields)

\* the raw strings of the inputs that Python's int() parses, with their values
IntLiterals ==
    {<<(<<"3">>), 3>>, <<(<<"7">>), 7>>, <<(<<" ", "-", "4", "2">>), 0 - 42>>}

\* the raw strings of the inputs that Python's int() rejects
IntRejected == {<<"x">>, <<"3", ".", "5">>}

\* the raw strings of the inputs that Python's float() parses, with their values
FloatLiterals ==
    {<<(<<"7", ".", "5">>), [float |-> TRUE, negative |-> FALSE, int |-> 7, frac |-> <<"5">>]>>,
     <<(<<" ", "-", ".", "5", "0">>), [float |-> TRUE, negative |-> TRUE, int |-> 0, frac |-> <<"5">>]>>,
     <<(<<"3">>), [float |-> TRUE, negative |-> FALSE, int |-> 3, frac |-> <<>>]>>}

\* the raw strings of the inputs that Python's float() rejects
FloatRejected == {<<".">>, <<"x">>}

\* the literals and the rejected strings of a field type
LiteralsOf(type) == IF type = "int" THEN IntLiterals ELSE FloatLiterals

RejectedOf(type) == IF type = "int" THEN IntRejected ELSE FloatRejected

\* the number a numeric field of the call has to hold: the parsed value, tagged
ParsedNumber(r, i) ==
    LET lit == CHOOSE l \in LiteralsOf(r.space_fields[i].type) : l[1] = RawOf(r, i)
    IN  IF r.space_fields[i].type = "int" THEN PyInt(lit[2]) ELSE PyFloat(lit[2])

Numeric(r) == Present(r, {"int", "float"})

\* the numeric fields of the call whose raw value is a number / is not
NumberGiven(r) ==
    {i \in Numeric(r) : \E l \in LiteralsOf(r.space_fields[i].type) : l[1] = RawOf(r, i)}

NumberRejected(r) ==
    {i \in Numeric(r) : RawOf(r, i) \in RejectedOf(r.space_fields[i].type)}

\* what holds of the numeric fields whatever else the input has: each raw value either
\* is a number or is not; an accepted call has a number in each, stored parsed whatever
\* min / max say; a call with no omitted required field and no bad number is accepted;
\* a call with a bad number fails and persists no note
NumbersParsed(r) ==
    /\ Numeric(r) = NumberGiven(r) \cup NumberRejected(r)
    /\ NumberGiven(r) \cap NumberRejected(r) = {}
    /\ r \in Accepted =>
          /\ NumberRejected(r) = {}
          /\ \A i \in Numeric(r) :
                /\ r.fields[r.space_fields[i].id] = ParsedNumber(r, i)
                /\ r.pc = "inserted" =>
                      /\ NotePersisted(r)
                      /\ StoredNote(r).fields[r.space_fields[i].id] = ParsedNumber(r, i)
    /\ MissingRequired(r) = {} /\ NumberRejected(r) = {} => r \in Accepted
    /\ NumberRejected(r) # {} => r.pc = "ValidationError" /\ ~NotePersisted(r)

\* C16 (as claimed): an int / float field present in the input is accepted exactly
\* when its raw value parses, the parsed number being stored whatever min / max say;
\* when it does not parse the call fails with a ValidationError naming that field's id
\* and raw value, and no note is persisted.
C16_UnparsableFieldNamed ==
    \A r \in Validated :
        /\ NumbersParsed(r)
        /\ \A i \in NumberRejected(r) :
              r.error = TypeError(r.space_fields[i].id, r.space_fields[i].type, RawOf(r, i))

\* C16 (amended): an int / float field present in the input is accepted exactly when
\* its raw value parses, the parsed number being stored whatever min / max say; when
\* it does not parse the call fails with a ValidationError and no note is persisted,
\* and the error names the first field in schema order that is an omitted required
\* field or a numeric field that does not parse: the field's own id and raw value
\* when no field before it fails.
C16_FirstUnparsableFieldNamed ==
    \A r \in Validated :
        /\ NumbersParsed(r)
        /\ NumberRejected(r) # {} =>
              LET first == Min(MissingRequired(r) \cup NumberRejected(r))
                  field_def == r.space_fields[first]
              IN  r.error = IF first \in MissingRequired(r)
                            THEN MissingError(field_def.id)
                            ELSE TypeError(field_def.id, field_def.type, RawOf(r, first))

\* a note with priority 7, above the declared max of 5, is stored, and a later call
\* with priority "3.5" has failed naming the field and the raw value, storing nothing
C16_Witness ==
    /\ \E d \in BagToSet(dbNotes) :
          "priority" \in DOMAIN d.fields /\ d.fields["priority"] = PyInt(7)
    /\ \E r \in Validated :
          /\ r.pc = "ValidationError"
          /\ r.error = TypeError("priority", "int", <<"3", ".", "5">>)
          /\ r.number > 0
          /\ ~NotePersisted(r)

\* the types whose branch of the loop is the final "else"
TextTypes == {"string", "select", "user", "image"}

\* C17: for a field of type string, select, user or image present in the input the
\* value of the note, and of the stored document, is the raw input string unchanged;
\* nothing is checked against the field's options or the space's members, so a select
\* value outside the declared values and a user that is no member are accepted.
C17_TextStoredUnchanged ==
    \A r \in Validated :
        /\ r.pc = "ValidationError" => r.error.field \notin
              {r.space_fields[i].id : i \in Present(r, TextTypes)}
        /\ r \in Accepted =>
              \A i \in Present(r, TextTypes) :
                  /\ r.fields[r.space_fields[i].id] = PyStr(RawOf(r, i))
                  /\ r.pc = "inserted" =>
                        /\ NotePersisted(r)
                        /\ StoredNote(r).fields[r.space_fields[i].id] = PyStr(RawOf(r, i))

\* the stored select value is outside the declared values
SelectOutsideValues(r) ==
    \E i \in Present(r, {"select"}) :
        /\ \A k \in 1..Len(r.space_fields[i].options.values) :
              r.space_fields[i].options.values[k] # RawOf(r, i)
        /\ StoredNote(r).fields[r.space_fields[i].id] = PyStr(RawOf(r, i))

\* the stored user value names nobody among the members of the space
UserNotMember(r) ==
    \E i \in Present(r, {"user"}) :
        /\ RawOf(r, i) = <<"c", "a", "r", "o", "l">>
        /\ \A s \in dbSpaces : s.slug = r.space_slug =>
              \A k \in 1..Len(s.members) : s.members[k] # "carol"
        /\ StoredNote(r).fields[r.space_fields[i].id] = PyStr(RawOf(r, i))

\* a note was stored with a select value outside the declared values, a user that is
\* no member of the space and an image value with its leading blank kept
C17_Witness ==
    \E r \in Accepted :
        /\ r.pc = "inserted"
        /\ SelectOutsideValues(r)
        /\ UserNotMember(r)
        /\ \E i \in Present(r, {"image"}) :
              /\ Head(RawOf(r, i)) = " "
              /\ StoredNote(r).fields[r.space_fields[i].id] = PyStr(RawOf(r, i))

\* a dict holds exactly the documents docs under the key key(d)
HoldsExactly(dict, docs, key(_)) ==
    /\ DOMAIN dict = {key(d) : d \in docs}
    /\ \A d \in docs : dict[key(d)] = d

UsernameOf(d) == d.username

TokenOf(d) == d.token

SlugOf(d) == d.slug

\* both user indexes hold exactly the documents docs
UserCacheHolds(by_username, by_token, docs) ==
    /\ HoldsExactly(by_username, docs, UsernameOf)
    /\ HoldsExactly(by_token, docs, TokenOf)

\* C18: what a reload leaves in the cache is determined by the documents it read: when
\* update_all_users_cache returns, both user indexes hold exactly those documents, and
\* when update_all_spaces_cache returns the space cache does, whatever the cache held
\* before. So a reload that follows another with no durable write in between, reading
\* the same documents, leaves the cache as the first one left it.
C18_ReloadIdempotent ==
    [][\A r \in Moved :
          /\ (r.op = "update_all_users_cache" /\ Returns(r) /\ r.pc = "found") =>
                /\ UserCacheHolds(users', users_by_token', r.docs)
                /\ UserCacheHolds(users, users_by_token, r.docs) => userCache' = userCache
                /\ spaces' = spaces
          /\ (r.op = "update_all_spaces_cache" /\ Returns(r) /\ r.pc = "found") =>
                /\ HoldsExactly(spaces', r.docs, SlugOf)
                /\ HoldsExactly(spaces, r.docs, SlugOf) => spaces' = spaces
                /\ userCache' = userCache
    ]_vars

\* two reloads of the user cache have read the same documents, which are those of the
\* store, and wait to return, while the token index holds a token of no document
C18_Witness ==
    \E r \in InFlight :
        /\ r.op = "update_all_users_cache" /\ r.pc = "found"
        /\ CopiesIn(r, inflight) = 2
        /\ r.docs = dbUsers
        /\ \E t \in DOMAIN users_by_token : \A d \in r.docs : d.token # t

\* C19: no request is served before on_start has returned: while the phase is not
\* "ready" nothing is in flight. The user cache is loaded before the admin user is
\* ensured and the space cache before on_start returns; in the step in which on_start
\* returns, both user indexes and the space cache hold exactly the documents of the
\* store, and user "admin" is among them.
C19_CachesLoadedBeforeReady ==
    [][/\ phase # "ready" => inflight = EmptyBag
       /\ phase' # "ready" => inflight' = EmptyBag
       /\ phase' = "ready" => phase \in {"users_started", "ready"}
       /\ phase' = "users_started" => phase \in {"users_loaded", "users_started"}
       /\ phase' = "users_loaded" => phase \in {"constructed", "users_loaded"}
       /\ (phase = "constructed" /\ phase' = "users_loaded") =>
             /\ UserCacheHolds(users', users_by_token', dbUsers')
             /\ dbVars' = dbVars
       /\ (phase = "users_started" /\ phase' = "ready") =>
             /\ UserCacheHolds(users', users_by_token', dbUsers')
             /\ HoldsExactly(spaces', dbSpaces', SlugOf)
             /\ "admin" \in DOMAIN users'
             /\ users'["admin"] \in dbUsers'
             /\ dbVars' = dbVars
    ]_vars

\* startup is complete on a store that held users and a space; the caches hold them,
\* "admin" included, and the first request is being served
C19_Witness ==
    /\ phase = "ready"
    /\ inflight # EmptyBag
    /\ UserCacheHolds(users, users_by_token, dbUsers)
    /\ HoldsExactly(spaces, dbSpaces, SlugOf)
    /\ "admin" \in DOMAIN users
    /\ "alice" \in DOMAIN users
    /\ "proj" \in DOMAIN spaces

\* the user objects the cache holds, in either index
CachedUsers ==
    {users[u] : u \in DOMAIN users} \cup {users_by_token[t] : t \in DOMAIN users_by_token}

\* no two different users of the set have the same username or the same token
UsernamesAndTokensUnique(coll) ==
    \A d1, d2 \in coll : (d1.username = d2.username \/ d1.token = d2.token) => d1 = d2

\* the durable half of C20: the users collection never holds two users with the same
\* username or the same token
StoreUsersUnique == UsernamesAndTokensUnique(dbUsers)

\* C20 (as claimed): in every state, in the users collection and in the cache, a
\* username belongs to at most one user and a token belongs to at most one user.
C20_UsernamesAndTokensUnique ==
    /\ UsernamesAndTokensUnique(dbUsers)
    /\ UsernamesAndTokensUnique(CachedUsers)

\* the requests that enter the bag in a step
Suspended(r) == CopiesIn(r, inflight') > CopiesIn(r, inflight)

\* C21: a create_user call by admin with a username that is a key of the user cache
\* raises ValidationError, and so does a create_space call by admin with a slug that
\* is a key of the space cache. Such a call never reaches the store: no create request
\* enters the await with a key the cache held at the call, and a step that suspends
\* no request leaves the store and the cache as they were.
C21_DuplicateKeyIsValidationError ==
    [][/\ \A a \in Tokens, u \in Usernames, t \in Tokens :
             (EnsureAdmin(a) = "ok" /\ u \in DOMAIN users)
                 => CreateUserCallOutcome(a, u, t) = "ValidationError"
       /\ \A a \in Tokens, sl \in Slugs :
             (EnsureAdmin(a) = "ok" /\ sl \in DOMAIN spaces)
                 => CreateSpaceCallOutcome(a, sl) = "ValidationError"
       /\ \A r \in Moved :
             /\ (r.op = "create_user" /\ r.pc = "insert_one" /\ Suspended(r)) =>
                   /\ r.username \notin DOMAIN users
                   /\ dbVars' = dbVars /\ cacheVars' = cacheVars
             /\ (r.op = "create_space" /\ r.pc = "insert_one" /\ Suspended(r)) =>
                   /\ r.slug \notin DOMAIN spaces
                   /\ dbVars' = dbVars /\ cacheVars' = cacheVars
       /\ (phase = "ready" /\ inflight' = inflight) =>
             (dbVars' = dbVars /\ cacheVars' = cacheVars)
    ]_vars

\* the service is ready with a free slot and admin is authenticated; user "alice" and
\* space "proj" are cached, and creating either again raises ValidationError, while a
\* create_user for the uncached "bob" is already waiting for its insert
C21_Witness ==
    /\ CanAccept
    /\ EnsureAdmin("admin") = "ok"
    /\ "alice" \in DOMAIN users
    /\ "proj" \in DOMAIN spaces
    /\ CreateUserCallOutcome("admin", "alice", "tb") = "ValidationError"
    /\ CreateSpaceCallOutcome("admin", "proj") = "ValidationError"
    /\ \E r \in InFlight : r.op = "create_user" /\ r.username = "bob" /\ r.pc = "insert_one"

NoDuplicates(seq) == \A i, j \in 1..Len(seq) : seq[i] = seq[j] => i = j

\* the add_member requests that enter their await in a step
AddMemberSuspended ==
    {r \in Moved : r.op = "add_member" /\ r.pc = "update_one" /\ Suspended(r)}

\* C22: add_member by admin raises NotFoundError for a slug that is no key of the
\* space cache and for a username that get_user does not find in the user cache, and
\* ValidationError for a username already in the cached members list. A call appends
\* the username only when the space and the user are known and the user is no member
\* yet; every other step at the service leaves each cached members list as it was,
\* and the stored list changes only by the update of a call that passed the checks.
\* No members list, cached or stored, holds a username twice.
C22_AddMemberChecked ==
    [][/\ \A a \in Tokens, sl \in Slugs, u \in Usernames :
             EnsureAdmin(a) = "ok" =>
                /\ sl \notin DOMAIN spaces => AddMemberCallOutcome(a, sl, u) = "NotFoundError"
                /\ (sl \in DOMAIN spaces /\ u \notin DOMAIN users)
                      => AddMemberCallOutcome(a, sl, u) = "NotFoundError"
                /\ (sl \in DOMAIN spaces /\ u \in DOMAIN users
                      /\ InSeq(u, spaces[sl].members))
                      => AddMemberCallOutcome(a, sl, u) = "ValidationError"
       /\ \A r \in AddMemberSuspended :
             /\ r.slug \in DOMAIN spaces
             /\ r.username \in DOMAIN users
             /\ ~InSeq(r.username, spaces[r.slug].members)
             /\ spaces'[r.slug].members = Append(spaces[r.slug].members, r.username)
             /\ dbSpaces' = dbSpaces
       /\ (phase = "ready" /\ AddMemberSuspended = {}) =>
             \A sl \in DOMAIN spaces :
                sl \in DOMAIN spaces' /\ spaces'[sl].members = spaces[sl].members
       /\ \A d \in dbSpaces : \A e \in dbSpaces' :
             (d.slug = e.slug /\ d.members # e.members) =>
                \E r \in Moved : r.op = "add_member" /\ r.slug = d.slug /\ r.pc = "update_one"
                                 /\ Returns(r)
       /\ \A sl \in DOMAIN spaces' : NoDuplicates(spaces'[sl].members)
       /\ \A d \in dbSpaces' : NoDuplicates(d.members)
    ]_vars

\* two members were added to "proj" and stored, and admin's calls for an unknown
\* space, an unknown user and a user who is a member already all fail
C22_Witness ==
    /\ CanAccept
    /\ EnsureAdmin("admin") = "ok"
    /\ "proj" \in DOMAIN spaces /\ Len(spaces["proj"].members) = 2
    /\ \E d \in dbSpaces : d.slug = "proj" /\ d.members = spaces["proj"].members
    /\ "docs" \notin DOMAIN spaces
    /\ AddMemberCallOutcome("admin", "docs", "alice") = "NotFoundError"
    /\ "bob" \notin DOMAIN users
    /\ AddMemberCallOutcome("admin", "proj", "bob") = "NotFoundError"
    /\ AddMemberCallOutcome("admin", "proj", "alice") = "ValidationError"

IsPrefix(seq, of) == Len(seq) <= Len(of) /\ SubSeq(of, 1, Len(seq)) = seq

\* the stored members of a space
StoredMembers(slug) == (CHOOSE d \in dbSpaces : d.slug = slug).members

\* C23: a lost update of add_member is reachable, and it is the stored list that loses:
\* in every state the stored members list of a cached space is a prefix of the cached
\* one, and the username of every call whose update succeeded is in the cached list,
\* but it need not be in the stored list (the witness: two calls on one space with
\* different usernames, both about to return success, one username not stored).
C23_StoredMembersPrefixOfCached ==
    /\ \A d \in dbSpaces :
          d.slug \in DOMAIN spaces => IsPrefix(d.members, spaces[d.slug].members)
    /\ \A r \in InFlight :
          (r.op = "add_member" /\ r.pc = "updated") =>
             InSeq(r.username, spaces[r.slug].members)

\* two add_member calls on the same space with different usernames have both had
\* their update succeed and wait to return; the stored list lacks one of the names
C23_Witness ==
    \E r1, r2 \in InFlight :
        /\ r1.op = "add_member" /\ r2.op = "add_member"
        /\ r1.pc = "updated" /\ r2.pc = "updated"
        /\ r1.slug = r2.slug /\ r1.username # r2.username
        /\ InSeq(r1.username, spaces[r1.slug].members)
        /\ InSeq(r2.username, spaces[r1.slug].members)
        /\ InSeq(r1.username, StoredMembers(r1.slug))
        /\ ~InSeq(r2.username, StoredMembers(r1.slug))

\* items is the slice of docs, ordered by direction * number, that skips offset
\* documents and takes at most limit
IsSlice(items, docs, offset, limit, direction) ==
    LET rest == Cardinality(docs) - offset
        size == IF rest <= 0 THEN 0 ELSE IF limit < rest THEN limit ELSE rest
    IN  /\ Len(items) = size
        /\ \A i \in 1..Len(items) :
              /\ items[i] \in docs
              /\ Cardinality({d \in docs :
                     direction * d.number < direction * items[i].number}) = offset + i - 1

Numbers(items) == [i \in 1..Len(items) |-> items[i].number]

ScopeNotes(r) == {d \in BagToSet(dbNotes) : d.space_slug = r.space_slug}

ScopeComments(r) ==
    {d \in BagToSet(dbComments) :
        d.space_slug = r.space_slug /\ d.note_number = r.note_number}

\* the list requests that enter a position in a step
ListReached(op, pc) == {r \in Moved : r.op = op /\ r.pc = pc /\ Suspended(r)}

\* C24: the total a list call gets is the number of records of its scope in the store
\* when count_documents is executed, whatever limit and offset are; the items it gets
\* are, of the scope's records in the store when find is executed, those after the
\* first offset ones and at most limit of them, in descending order of number for
\* notes and in ascending order for comments. Five notes with limit 2 and offset 2
\* give the numbers 3, 2 and total 5.
C24_ListIsSliceOfScope ==
    [][/\ \A r \in ListReached("list_notes", "find") :
             r.total = Cardinality(ScopeNotes(r))
       /\ \A r \in ListReached("list_notes", "found") :
             /\ IsSlice(r.items, ScopeNotes(r), r.offset, r.limit, 0 - 1)
             /\ \E q \in Moved : Returns(q) /\ q.pc = "find" /\ q.total = r.total
             /\ (Cardinality(ScopeNotes(r)) = 5 /\ r.limit = 2 /\ r.offset = 2) =>
                   (Numbers(r.items) = <<3, 2>> /\ r.total = 5)
       /\ \A r \in ListReached("list_comments", "find") :
             r.total = Cardinality(ScopeComments(r))
       /\ \A r \in ListReached("list_comments", "found") :
             /\ IsSlice(r.items, ScopeComments(r), r.offset, r.limit, 1)
             /\ \E q \in Moved : Returns(q) /\ q.pc = "find" /\ q.total = r.total
             /\ (Cardinality(ScopeComments(r)) = 3 /\ r.limit = 2 /\ r.offset = 2) =>
                   (Numbers(r.items) = <<3>> /\ r.total = 3)
    ]_vars

\* list_notes("proj", limit 2, offset 2) has got the notes 3, 2 and total 5, and
\* list_comments on note 1 with limit 5 has got the comments 1, 2, 3 and total 3
C24_Witness ==
    /\ \E r \in InFlight :
          /\ r.op = "list_notes" /\ r.pc = "found" /\ r.space_slug = "proj"
          /\ r.limit = 2 /\ r.offset = 2
          /\ Numbers(r.items) = <<3, 2>> /\ r.total = 5
    /\ \E r \in InFlight :
          /\ r.op = "list_comments" /\ r.pc = "found"
          /\ r.space_slug = "proj" /\ r.note_number = 1
          /\ r.limit = 5 /\ r.offset = 0
          /\ Numbers(r.items) = <<1, 2, 3>> /\ r.total = 3

\* the schema of the space in the cache and in the store
SchemaIs(slug, P(_)) ==
    /\ slug \in DOMAIN spaces /\ P(spaces[slug].fields)
    /\ \A s \in dbSpaces : s.slug = slug => P(s.fields)

\* C25: a note's fields are a snapshot: no step, and in particular no add_field,
\* remove_field or add_member on the space, changes or removes a persisted note;
\* every note document of "notes" stays in "notes" as it is
C25_PersistedNotesKeepFields == [][dbNotes \sqsubseteq dbNotes']_vars

\* a persisted note of "proj" keeps its value of "priority" after the field was
\* removed from the schema, "ratio" was added and "admin" became a member
C25_Witness ==
    /\ inflight = EmptyBag
    /\ \E d \in BagToSet(dbNotes) :
          /\ d.space_slug = "proj"
          /\ DOMAIN d.fields = {"priority"}
    /\ SchemaIs("proj", LAMBDA fs : ~HasField(fs, "priority") /\ HasField(fs, "ratio"))
    /\ \E k \in 1..Len(spaces["proj"].members) : spaces["proj"].members[k] = "admin"

\* the user of a known token is admin or is in the cached members list of the space
Allowed(a, s) ==
    \/ users_by_token[a].username = "admin"
    \/ InSeq(users_by_token[a].username, spaces[s].members)

\* the position at which a call on notes enters its first await
FirstPc(op) ==
    IF op = "create_note" THEN "find_one_and_update"
    ELSE IF op \in {"get_note", "create_comment"} THEN "find_one"
    ELSE "count_documents"

\* the calls on notes that pass the membership check in a step
Entered ==
    {r \in Moved : /\ r.op \in {"create_note", "get_note", "list_notes",
                                "create_comment", "list_comments"}
                   /\ r.pc = FirstPc(r.op) /\ Suspended(r)
                   /\ \A q \in Moved : ~Returns(q)}

\* C26: on a cached space, a call with a token the cache does not know raises
\* AuthenticationError, a call of a user who is neither admin nor in the space's cached
\* members list raises AccessDeniedError, and a call of admin or of a member goes on.
\* A create_note or create_comment that goes on is by admin or by a member at the call;
\* a get_note, list_notes or list_comments that goes on (bob is the only reader) is
\* made while bob is a member. The call itself and every failed call leave all
\* counters and collections as they were.
C26_NotesOnlyForMembers ==
    [][phase = "ready" =>
         /\ \A a \in AccessTokens, s \in DOMAIN spaces :
               /\ a \notin DOMAIN users_by_token =>
                     /\ CreateNoteCallOutcome(a, s) = "AuthenticationError"
                     /\ CreateCommentCallOutcome(a, s) = "AuthenticationError"
               /\ (a \in DOMAIN users_by_token /\ ~Allowed(a, s)) =>
                     /\ CreateNoteCallOutcome(a, s) = "AccessDeniedError"
                     /\ CreateCommentCallOutcome(a, s) = "AccessDeniedError"
               /\ (a \in DOMAIN users_by_token /\ Allowed(a, s)) =>
                     /\ CreateNoteCallOutcome(a, s) = "await"
                     /\ CreateCommentCallOutcome(a, s) = "await"
         /\ \A r \in Entered :
               /\ r.op \in {"create_note", "create_comment"} =>
                     \/ r.author_username = "admin"
                     \/ /\ r.space_slug \in DOMAIN spaces
                        /\ InSeq(r.author_username, spaces[r.space_slug].members)
               /\ r.op \in {"get_note", "list_notes", "list_comments"} =>
                     /\ "tb" \in DOMAIN users_by_token
                     /\ r.space_slug \in DOMAIN spaces
                     /\ InSeq(users_by_token["tb"].username, spaces[r.space_slug].members)
               /\ dbVars' = dbVars
         /\ inflight' = inflight => dbVars' = dbVars
    ]_vars

\* bob, added to "proj", has a note of his in "proj" and a list of its notes in hand,
\* and is still denied in "docs", where admin, no member, has a note; a token
\* of nobody is refused
C26_Witness ==
    /\ phase = "ready"
    /\ \E d \in BagToSet(dbNotes) : d.space_slug = "proj" /\ d.author_username = "bob"
    /\ \E d \in BagToSet(dbNotes) : d.space_slug = "docs" /\ d.author_username = "admin"
    /\ \E r \in InFlight : /\ r.op = "list_notes" /\ r.pc = "found"
                           /\ r.space_slug = "proj" /\ Len(r.items) = 1
    /\ spaces["docs"].members = <<>>
    /\ CreateNoteCallOutcome("tb", "docs") = "AccessDeniedError"
    /\ CreateCommentCallOutcome("tb", "docs") = "AccessDeniedError"
    /\ CreateNoteCallOutcome("tz", "proj") = "AuthenticationError"

\* how far a create_note or create_comment call has got
Rank(pc) ==
    IF pc = "find_one" THEN 1
    ELSE IF pc \in {"found", "NotFoundError", "StorageError"} THEN 2
    ELSE IF pc = "find_one_and_update" THEN 3
    ELSE IF pc \in {"numbered", "CounterStorageError"} THEN 4
    ELSE IF pc \in {"insert_one", "ValidationError"} THEN 5
    ELSE 6

Creates == {r \in Moved : r.op \in {"create_note", "create_comment"}}

\* the counter of the scope of a create call
CounterOf(r, notes, comments) ==
    IF r.op = "create_note" THEN notes[r.space_slug]
    ELSE comments[<<r.space_slug, r.note_number>>]

\* the step takes the create call q from position from to position to
Takes(q, from, to) ==
    /\ q \in Creates /\ q.pc = from /\ Returns(q)
    /\ \E r \in Creates : r.op = q.op /\ r.pc = to /\ Suspended(r)

NumbersWithinCounters ==
    /\ \A d \in BagToSet(dbNotes) :
          1 <= d.number /\ d.number <= note_counters[d.space_slug]
    /\ \A d \in BagToSet(dbComments) :
          1 <= d.number /\ d.number <= comment_counters[<<d.space_slug, d.note_number>>]

\* C27: a create_note or create_comment call only moves forward, so it runs its
\* find_one_and_update once and its insert_one once; a counter changes only by the
\* find_one_and_update of one call of its scope, by exactly one, and that call takes
\* the new value as its number; a collection of notes or comments changes only by
\* the insert_one of one call, by the one record with that call's number. In every
\* state the number of each persisted note is at least 1 and at most the counter of
\* its space, and the number of each persisted comment is at least 1 and at most
\* the counter of its note.
C27_OneIncrementOneInsert ==
    /\ []NumbersWithinCounters
    /\ [][/\ \A q, r \in Creates :
                (Returns(q) /\ Suspended(r)) =>
                   (r.op = q.op /\ Rank(r.pc) > Rank(q.pc)
                      /\ (q.number # 0 => r.number = q.number))
          /\ \A s \in Slugs :
                note_counters'[s] # note_counters[s] =>
                   /\ note_counters'[s] = note_counters[s] + 1
                   /\ \A t \in Slugs \ {s} : note_counters'[t] = note_counters[t]
                   /\ \E q \in Creates :
                         /\ q.op = "create_note" /\ q.space_slug = s /\ q.number = 0
                         /\ Takes(q, "find_one_and_update", "numbered")
                   /\ \A r \in Creates : Suspended(r) => r.number = note_counters'[s]
          /\ \A k \in Scopes :
                comment_counters'[k] # comment_counters[k] =>
                   /\ comment_counters'[k] = comment_counters[k] + 1
                   /\ \A t \in Scopes \ {k} : comment_counters'[t] = comment_counters[t]
                   /\ \E q \in Creates :
                         /\ q.op = "create_comment" /\ <<q.space_slug, q.note_number>> = k
                         /\ q.number = 0
                         /\ Takes(q, "find_one_and_update", "numbered")
                   /\ \A r \in Creates : Suspended(r) => r.number = comment_counters'[k]
          /\ dbNotes' # dbNotes =>
                \E q \in Creates :
                   /\ q.op = "create_note" /\ Takes(q, "insert_one", "inserted")
                   /\ dbNotes' = dbNotes (+) SetToBag({Note(q.space_slug, q.number,
                                                           q.author_username, q.fields)})
          /\ dbComments' # dbComments =>
                \E q \in Creates :
                   /\ q.op = "create_comment" /\ Takes(q, "insert_one", "inserted")
                   /\ dbComments' = dbComments (+)
                         SetToBag({Comment(q.space_slug, q.note_number, q.author_username,
                                           q.number, q.content)})
          /\ \A q \in Creates :
                (Takes(q, "find_one_and_update", "numbered") \/ Takes(q, "insert_one", "inserted"))
                   => (CounterOf(q, note_counters', comment_counters')
                          # CounterOf(q, note_counters, comment_counters)
                       \/ dbNotes' # dbNotes \/ dbComments' # dbComments)
         ]_vars

\* a create_note and a create_comment call have both succeeded and wait to return:
\* note 2 of "proj" and comment 1 of note 1 of "proj" are stored once each, with the
\* counters at 2 and 1
C27_Witness ==
    /\ \E r \in InFlight : /\ r.op = "create_note" /\ r.pc = "inserted"
                           /\ r.space_slug = "proj" /\ r.number = 2
    /\ \E r \in InFlight : /\ r.op = "create_comment" /\ r.pc = "inserted"
                           /\ r.space_slug = "proj" /\ r.note_number = 1 /\ r.number = 1
    /\ note_counters["proj"] = 2
    /\ comment_counters[<<"proj", 1>>] = 1
    /\ BagCardinality(dbNotes) = 2
    /\ BagCardinality(dbComments) = 1

\* the delete_user calls on this username that are still running after the step
DeletesLeft(username) ==
    {q \in BagToSet(inflight') : q.op = "delete_user" /\ q.username = username}

\* C28 (as claimed): a delete_user call that got past its checks ends in success or
\* in the storage failure of its delete_one, never in another error (NotFoundError
\* is raised only by the checks before the await), also when a second call for the
\* same username runs beside it; and when the last of the calls on a username ends
\* after a delete_one that went through, the user is in neither the users collection
\* nor the username index nor the token index.
C28_ConcurrentDeletesEndCleanly ==
    [][\A r \in Moved :
          (r.op = "delete_user" /\ Returns(r) /\ r.pc \in {"deleted", "StorageError"}) =>
             /\ DeleteUserResumeOutcome(r) \in {"ok", "StorageError"}
             /\ (r.pc = "deleted" /\ DeletesLeft(r.username) = {}) =>
                   /\ \A d \in dbUsers' : d.username # r.username
                   /\ r.username \notin DOMAIN users'
                   /\ r.token \notin DOMAIN users_by_token'
      ]_vars

\* the delete_user calls that move in a step
DeleteSteps == {r \in Moved : r.op = "delete_user"}

\* C29: a step of delete_user (its call, its delete_one, its return) leaves every
\* space as it is in the cache and in the store, and with them the counters, notes
\* and comments; and whoever holds a token whose cached user carries a username of
\* the cached members list of a space passes the membership check of create_note and
\* create_comment there, whenever that user was created.
C29_DeleteKeepsMembers ==
    [][/\ DeleteSteps # {} =>
             /\ spaces' = spaces
             /\ dbSpaces' = dbSpaces
             /\ recordVars' = recordVars
       /\ \A a \in DOMAIN users_by_token, s \in DOMAIN spaces :
             InSeq(users_by_token[a].username, spaces[s].members) =>
                /\ CreateNoteCallOutcome(a, s) = "await"
                /\ CreateCommentCallOutcome(a, s) = "await"
      ]_vars

\* alice was deleted and created again with the token tb; "proj" still names her as
\* its only member in the cache and in the store, nobody called add_member for her,
\* and her create_note call in "proj" is under way
C29_Witness ==
    /\ "proj" \in DOMAIN spaces
    /\ "alice" \in DOMAIN users /\ users["alice"].token = "tb"
    /\ "tb" \in DOMAIN users_by_token /\ users_by_token["tb"].username = "alice"
    /\ "ta" \notin DOMAIN users_by_token
    /\ User("alice", "tb") \in dbUsers
    /\ spaces["proj"].members = <<"alice">>
    /\ \A d \in dbSpaces : d.slug = "proj" => d.members = <<"alice">>
    /\ CreateNoteCallOutcome("tb", "proj") = "await"
    /\ \E r \in InFlight : /\ r.op = "create_note" /\ r.author_username = "alice"
                           /\ r.pc = "find_one_and_update"

\* C30: once startup is over, a delete_user call that names "admin" raises
\* AuthenticationError for a token the cache does not know, ValidationError for
\* admin and AccessDeniedError for every other user, so no such call ever reaches
\* the store; and "admin" is in the username index, in the token index and in the
\* users collection.
C30_AdminNeverDeleted ==
    phase = "ready" =>
       /\ \A a \in AccessTokens :
             DeleteUserCallOutcome(a, "admin") =
                IF a \notin DOMAIN users_by_token THEN "AuthenticationError"
                ELSE IF users_by_token[a].username = "admin" THEN "ValidationError"
                ELSE "AccessDeniedError"
       /\ \A r \in InFlight : r.op = "delete_user" => r.username # "admin"
       /\ "admin" \in DOMAIN users /\ users["admin"].username = "admin"
       /\ \E t \in DOMAIN users_by_token : users_by_token[t] = users["admin"]
       /\ users["admin"] \in dbUsers

\* alice has been deleted and bob created; admin, bob and a caller with a token of
\* nobody are all refused when they name "admin", each with the claimed error
C30_Witness ==
    /\ phase = "ready" /\ inflight = EmptyBag
    /\ "alice" \notin DOMAIN users
    /\ "bob" \in DOMAIN users /\ users["bob"].token = "tb"
    /\ "tb" \in DOMAIN users_by_token
    /\ DeleteUserCallOutcome("admin", "admin") = "ValidationError"
    /\ DeleteUserCallOutcome("tb", "admin") = "AccessDeniedError"
    /\ DeleteUserCallOutcome("ta", "admin") = "AuthenticationError"
    /\ "admin" \in DOMAIN users

====
